---- MODULE Spec2Model ----
(***************************************************************************)
(* Metrics-computation layer of the Dreamland analytics dashboard:         *)
(* get_customer_summary, get_daily_usage_summary (data_loading.py),        *)
(* calculate_churn_metrics, calculate_consolidated_churn_metrics           *)
(* (churn_analysis.py), get_action_thresholds, analyze_user_segments       *)
(* (stickiness.py).                                                        *)
(*                                                                         *)
(* Tables (DataFrames) are sequences of records, in row order.  Dates are  *)
(* day numbers (day 1 = 2024-02-01 for usage events, day 1 = 2024-01-01    *)
(* for customer records); a missing date is NaT, a missing string is NULL. *)
(* Ratios are kept exact as [num, den] records (den = 0 never occurs in a  *)
(* ratio the code evaluates).                                              *)
(***************************************************************************)
EXTENDS Integers, Sequences, FiniteSets, TLC

VARIABLES customers_df, usage_df,       \* the two input tables
          pc, args,                     \* the function applied, its parameters
          customer_summary, daily_usage,
          user_activity,                \* per-customer table of the churn functions
          cohort_metrics, overall_metrics, weekly_metrics,
          action_thresholds, segments,
          weekly_stickiness,            \* calculate_time_based_stickiness
          user_metrics, total_weeks,    \* prepare_user_metrics
          error,                        \* the exception raised, <<>> if none
          kmeans, user_segments,        \* cluster_users
          transition_locals,            \* locals of analyze_product_transitions
          transition_data,
          purchase_metrics,             \* calculate_purchase_metrics
          channel_metrics,              \* get_channel_overview_metrics
          channel_trends,               \* calculate_channel_trends
          multi_channel_analysis,       \* analyze_multi_channel_distribution
          activation_insights,          \* time to activation by channel
          kpis,                         \* calculate_north_star_kpis
          date_range, usage_csv,        \* sidebar filter, the usage file as loaded
          previous                      \* what the previous run of a function returned

segmentation_vars == <<user_metrics, total_weeks, error, kmeans, user_segments>>
transition_vars == <<transition_locals, transition_data>>
channel_vars ==
  <<channel_metrics, channel_trends, multi_channel_analysis, activation_insights>>
dashboard_vars == <<kpis, date_range, usage_csv>>

vars == <<customers_df, usage_df, pc, args, customer_summary, daily_usage,
          user_activity, cohort_metrics, overall_metrics, weekly_metrics,
          action_thresholds, segments, weekly_stickiness, segmentation_vars,
          transition_vars, purchase_metrics, channel_vars, dashboard_vars,
          previous>>

----------------------------------------------------------------------------
(* Missing values *)

NaT == 0
NULL == "NULL"

(* Bounds of the input tables *)

MaxCustRows == 3
MaxUsageRows == 4
MaxChurnRows == 3
MaxSegRows == 4
MaxConfigRows == 3
MaxWeeklyRows == 3
MaxPrepareRows == 3
MaxTransRows == 4
MaxFunnelCustRows == 2
MaxFunnelUsageRows == 2
MaxMultiChannelRows == 4
MaxChannelRows == 2
MaxRerunRows == 3

----------------------------------------------------------------------------
(* Generic helpers (pandas primitives) *)

Min(S) == CHOOSE x \in S : \A y \in S : x <= y
Max(S) == CHOOSE x \in S : \A y \in S : x >= y

RECURSIVE SortedSeq(_)
SortedSeq(S) == IF S = {} THEN <<>> ELSE <<Min(S)>> \o SortedSeq(S \ {Min(S)})

Range(s) == {s[i] : i \in 1..Len(s)}

RECURSIVE SumSeq(_)
SumSeq(s) == IF s = <<>> THEN 0 ELSE Head(s) + SumSeq(Tail(s))

RECURSIVE Flatten(_)
Flatten(ss) == IF ss = <<>> THEN <<>> ELSE Head(ss) \o Flatten(Tail(ss))

\* Series.min() / .max() of a date column: NaT is skipped, all-NaT gives NaT
MinDate(S) == IF S \ {NaT} = {} THEN NaT ELSE Min(S \ {NaT})
MaxDate(S) == IF S \ {NaT} = {} THEN NaT ELSE Max(S \ {NaT})

\* Series.dropna() on a string column
DropNa(s) == SelectSeq(s, LAMBDA v : v # NULL)

\* Series.unique(): distinct values in order of first appearance
RECURSIVE Unique(_)
Unique(s) ==
  IF s = <<>> THEN <<>>
  ELSE LET init == Unique(SubSeq(s, 1, Len(s) - 1))
           last == s[Len(s)]
       IN IF last \in Range(init) THEN init ELSE Append(init, last)

----------------------------------------------------------------------------
(* get_customer_summary *)

\* row labels of one customerid group
GroupRows(df, c) == {i \in 1..Len(df) : df[i].customerid = c}

\* groupby('customerid') keys, sorted
CustomerKeys(df) == SortedSeq({df[i].customerid : i \in 1..Len(df)})

\* groupby('customerid')['signup_date'].idxmin(): label of the first row
\* holding the group's minimum
\* IdxMin taking the last row holding the minimum instead of the first
IdxMinLast(df, c) ==
  LET rows == GroupRows(df, c)
      m == MinDate({df[i].signup_date : i \in rows})
  IN Max({i \in rows : df[i].signup_date = m})

IdxMin(df, c) ==
  LET rows == GroupRows(df, c)
      m == MinDate({df[i].signup_date : i \in rows})
  IN Min({i \in rows : df[i].signup_date = m})

first_signup_info(df) ==
  LET keys == CustomerKeys(df)
  IN [k \in 1..Len(keys) |->
        LET r == df[IdxMin(df, keys[k])]
        IN [customerid |-> r.customerid,
            first_signedup_product |-> r.product_name,
            first_signedup_channel |-> r.channel]]

\* column values of one group, in row order
GroupColumn(df, c, col) ==
  LET sel == SelectSeq(df, LAMBDA r : r.customerid = c)
  IN [i \in 1..Len(sel) |-> sel[i][col]]

\* AggCustomer with 'max' in place of 'min' for signup_date
AggCustomerMaxSignup(df, c) ==
  [customerid |-> c,
   signup_date |-> MaxDate(Range(GroupColumn(df, c, "signup_date"))),
   first_activation_date |-> MinDate(Range(GroupColumn(df, c, "first_activation_date"))),
   first_purchase_date |-> MinDate(Range(GroupColumn(df, c, "first_purchase_date"))),
   cancel_date |-> MinDate(Range(GroupColumn(df, c, "cancel_date"))),
   product_name |-> Unique(DropNa(GroupColumn(df, c, "product_name"))),
   channel |-> Unique(DropNa(GroupColumn(df, c, "channel")))]

AggCustomer(df, c) ==
  [customerid |-> c,
   signup_date |-> MinDate(Range(GroupColumn(df, c, "signup_date"))),
   first_activation_date |-> MinDate(Range(GroupColumn(df, c, "first_activation_date"))),
   first_purchase_date |-> MinDate(Range(GroupColumn(df, c, "first_purchase_date"))),
   cancel_date |-> MinDate(Range(GroupColumn(df, c, "cancel_date"))),
   product_name |-> Unique(DropNa(GroupColumn(df, c, "product_name"))),
   channel |-> Unique(DropNa(GroupColumn(df, c, "channel")))]

\* customer_summary.merge(first_signup_info, on='customerid', how='left')
MergeLeft(left, right) ==
  Flatten([k \in 1..Len(left) |->
     LET m == SelectSeq(right, LAMBDA r : r.customerid = left[k].customerid)
     IN IF m = <<>>
        THEN <<left[k] @@ [first_signedup_product |-> NULL,
                           first_signedup_channel |-> NULL]>>
        ELSE [j \in 1..Len(m) |->
                left[k] @@ [first_signedup_product |-> m[j].first_signedup_product,
                            first_signedup_channel |-> m[j].first_signedup_channel]]])

fill_first_productUnfilled(row) == row.first_signedup_product

fill_first_product(row) ==
  IF row.first_signedup_product = NULL /\ Len(row.product_name) > 0
  THEN row.product_name[1]
  ELSE row.first_signedup_product

fill_first_channel(row) ==
  IF row.first_signedup_channel = NULL /\ Len(row.channel) > 0
  THEN row.channel[1]
  ELSE row.first_signedup_channel

\* SummaryFlags with 'purchased' read from the activation date
SummaryFlagsPurchasedFromActivation(row) ==
  [signedup |-> row.signup_date # NaT,
   activated |-> row.first_activation_date # NaT,
   purchased |-> row.first_activation_date # NaT,
   cancelled |-> row.cancel_date # NaT,
   num_products |-> Len(row.product_name),
   num_channels |-> Len(row.channel),
   is_cross_product |-> Len(row.product_name) > 1,
   is_multi_channel |-> Len(row.channel) > 1]

SummaryFlags(row) ==
  [signedup |-> row.signup_date # NaT,
   activated |-> row.first_activation_date # NaT,
   purchased |-> row.first_purchase_date # NaT,
   cancelled |-> row.cancel_date # NaT,
   num_products |-> Len(row.product_name),
   num_channels |-> Len(row.channel),
   is_cross_product |-> Len(row.product_name) > 1,
   is_multi_channel |-> Len(row.channel) > 1]

get_customer_summary(df) ==
  LET keys == CustomerKeys(df)
      agg == [k \in 1..Len(keys) |-> AggCustomer(df, keys[k])]
      merged == MergeLeft(agg, first_signup_info(df))
  IN [k \in 1..Len(merged) |->
        [merged[k] EXCEPT !.first_signedup_product = fill_first_product(merged[k]),
                          !.first_signedup_channel = fill_first_channel(merged[k])]
        @@ SummaryFlags(merged[k])]

----------------------------------------------------------------------------
(* Ordering of group keys, exact ratios *)

\* product names in string order, as groupby sorts them
ProductOrder == <<"Mint", "QuickBooks", "TurboTax">>
ProductRank(p) == CHOOSE i \in 1..Len(ProductOrder) : ProductOrder[i] = p

\* lexicographic order on integer tuples of equal length (product names
\* enter the group keys as their rank)
RECURSIVE KeyLess(_, _)
KeyLess(a, b) ==
  IF Len(a) = 0 THEN FALSE
  ELSE \/ a[1] < b[1]
       \/ a[1] = b[1] /\ KeyLess(Tail(a), Tail(b))

RECURSIVE SortKeys(_)
SortKeys(S) ==
  IF S = {} THEN <<>>
  ELSE LET m == CHOOSE x \in S : \A y \in S \ {x} : KeyLess(x, y)
       IN <<m>> \o SortKeys(S \ {m})

\* ascending sort of a numeric column, duplicates kept
RECURSIVE SortValues(_)
SortValues(s) ==
  IF s = <<>> THEN <<>>
  ELSE LET m == Min(Range(s))
           i == Min({j \in 1..Len(s) : s[j] = m})
       IN <<m>> \o SortValues(SubSeq(s, 1, i - 1) \o SubSeq(s, i + 1, Len(s)))

\* a / b as computed on numeric columns: exact, 0 / 0 is NaN
Ratio(a, b) == [num |-> a, den |-> b]
NaN == Ratio(0, 0)
RatioEq(r, a, b) == r.den # 0 /\ b # 0 /\ r.num * b = a * r.den

Column(df, col) == [i \in 1..Len(df) |-> df[i][col]]

----------------------------------------------------------------------------
(* get_daily_usage_summary *)

\* groupby(['customerid', 'event_date', 'product_name']) keys: rows with a
\* null key component are left out (dropna=True), keys are sorted
DailyKeys(df) ==
  SortKeys({<<df[i].customerid, df[i].event_date, ProductRank(df[i].product_name)>> :
              i \in {j \in 1..Len(df) : df[j].product_name # NULL}})

get_daily_usage_summary(df) ==
  LET keys == DailyKeys(df)
  IN [k \in 1..Len(keys) |->
        LET g == SelectSeq(df, LAMBDA r : /\ r.customerid = keys[k][1]
                                          /\ r.event_date = keys[k][2]
                                          /\ r.product_name = ProductOrder[keys[k][3]])
        IN [customerid |-> keys[k][1],
            event_date |-> keys[k][2],
            product_name |-> ProductOrder[keys[k][3]],
            total_usage |-> SumSeq(Column(g, "usage_count")),
            actions_taken |-> Cardinality(Range(Column(g, "action_type_id")))]]

----------------------------------------------------------------------------
(* calculate_churn_metrics, calculate_consolidated_churn_metrics *)

DEFAULT_CHURN_THRESHOLD_DAYS == 21

\* dt.to_period('W') ... dt.start_time: the Monday of the date's week
\* (usage day 1 is Thursday 2024-02-01)
WeekStart(d) == d - ((d + 2) % 7)

\* UserActivity with a strict comparison for is_churned
UserActivityStrict(df, max_date, churn_threshold_days) ==
  LET keys == CustomerKeys(df)
  IN [k \in 1..Len(keys) |->
        LET dates == Range(GroupColumn(df, keys[k], "event_date"))
            days == max_date - MaxDate(dates)
        IN [customerid |-> keys[k],
            event_date_first |-> MinDate(dates),
            cohort_week |-> WeekStart(MinDate(dates)),
            event_date_last |-> MaxDate(dates),
            days_since_last |-> days,
            is_churned |-> days > churn_threshold_days]]

\* first / last event per customer of df, days since the last one as of
\* max_date, churn flag
UserActivity(df, max_date, churn_threshold_days) ==
  LET keys == CustomerKeys(df)
  IN [k \in 1..Len(keys) |->
        LET dates == Range(GroupColumn(df, keys[k], "event_date"))
            days == max_date - MaxDate(dates)
        IN [customerid |-> keys[k],
            event_date_first |-> MinDate(dates),
            cohort_week |-> WeekStart(MinDate(dates)),
            event_date_last |-> MaxDate(dates),
            days_since_last |-> days,
            is_churned |-> days >= churn_threshold_days]]

\* CohortMetrics counting the churned users of all cohorts in every row
CohortMetricsAllChurned(ua) ==
  LET weeks == SortedSeq(Range(Column(ua, "cohort_week")))
  IN [k \in 1..Len(weeks) |->
        LET g == SelectSeq(ua, LAMBDA r : r.cohort_week = weeks[k])
            churned == Len(SelectSeq(ua, LAMBDA r : r.is_churned))
        IN [cohort_week |-> weeks[k],
            cohort_size |-> Len(g),
            churned_users |-> churned,
            churn_rate |-> Ratio(churned, Len(g))]]

\* groupby('cohort_week').agg(count, sum), churn_rate, rename
CohortMetrics(ua) ==
  LET weeks == SortedSeq(Range(Column(ua, "cohort_week")))
  IN [k \in 1..Len(weeks) |->
        LET g == SelectSeq(ua, LAMBDA r : r.cohort_week = weeks[k])
            churned == Len(SelectSeq(g, LAMBDA r : r.is_churned))
        IN [cohort_week |-> weeks[k],
            cohort_size |-> Len(g),
            churned_users |-> churned,
            churn_rate |-> Ratio(churned, Len(g))]]

\* ProductUserActivity measuring from the last event of the product
ProductUserActivityFilteredMax(df, product, churn_threshold_days) ==
  LET product_df == SelectSeq(df, LAMBDA r : r.product_name = product)
  IN UserActivity(product_df, MaxDate(Range(Column(product_df, "event_date"))),
                  churn_threshold_days)

\* user_activity of calculate_churn_metrics: the rows are those of the
\* product, max_date is taken over the whole table
ProductUserActivity(df, product, churn_threshold_days) ==
  LET product_df == SelectSeq(df, LAMBDA r : r.product_name = product)
  IN UserActivity(product_df, MaxDate(Range(Column(df, "event_date"))),
                  churn_threshold_days)

calculate_churn_metrics(df, product, churn_threshold_days) ==
  CohortMetrics(ProductUserActivity(df, product, churn_threshold_days))

\* ConsolidatedUserActivity measuring from a day after the last event
ConsolidatedUserActivityFromLaterDay(df, churn_threshold_days) ==
  UserActivity(df, MaxDate(Range(Column(df, "event_date"))) + churn_threshold_days,
               churn_threshold_days)

ConsolidatedUserActivity(df, churn_threshold_days) ==
  UserActivity(df, MaxDate(Range(Column(df, "event_date"))), churn_threshold_days)

\* OverallMetrics dividing without the total_users > 0 guard
OverallMetricsUnguarded(ua) ==
  LET total_users == Len(ua)
      churned_users == Len(SelectSeq(ua, LAMBDA r : r.is_churned))
  IN [total_users |-> total_users,
      churned_users |-> churned_users,
      churn_rate |-> Ratio(churned_users, total_users),
      avg_days_since_last |-> Ratio(SumSeq(Column(ua, "days_since_last")), total_users)]

OverallMetrics(ua) ==
  LET total_users == Len(ua)
      churned_users == Len(SelectSeq(ua, LAMBDA r : r.is_churned))
  IN [total_users |-> total_users,
      churned_users |-> churned_users,
      churn_rate |-> IF total_users > 0 THEN Ratio(churned_users, total_users)
                     ELSE Ratio(0, 1),
      avg_days_since_last |-> Ratio(SumSeq(Column(ua, "days_since_last")), total_users)]

----------------------------------------------------------------------------
(* get_action_thresholds, analyze_user_segments *)

\* STICKINESS_THRESHOLDS.get(product, STICKINESS_THRESHOLDS['default'])
STICKINESS_THRESHOLDS(product) ==
  CASE product = "QuickBooks" -> 5
    [] product = "TurboTax" -> 2
    [] product = "Mint" -> 4
    [] OTHER -> 3

\* Series.quantile(0.7), linear interpolation, as a ratio over 10
Quantile70(values) ==
  LET v == SortValues(values)
      pos == 7 * (Len(v) - 1)
      lo == (pos \div 10) + 1
      frac == pos % 10
  IN IF frac = 0 THEN Ratio(10 * v[lo], 10)
     ELSE Ratio(10 * v[lo] + frac * (v[lo + 1] - v[lo]), 10)

\* Series.median(), as a ratio over 2
Median(values) ==
  LET v == SortValues(values)
      n == Len(v)
  IN IF n % 2 = 1 THEN Ratio(2 * v[(n + 1) \div 2], 2)
     ELSE Ratio(v[n \div 2] + v[(n \div 2) + 1], 2)

\* total usage_count of each customer with rows in df, by customerid
UsageTotals(df) ==
  LET keys == CustomerKeys(df)
  IN [k \in 1..Len(keys) |-> SumSeq(GroupColumn(df, keys[k], "usage_count"))]

get_action_thresholds(df) ==
  LET keys == SortKeys({<<ProductRank(df[i].product_name), df[i].action_type_id>> :
                          i \in {j \in 1..Len(df) : df[j].product_name # NULL}})
  IN [k \in 1..Len(keys) |->
        LET g == SelectSeq(df, LAMBDA r : /\ r.product_name = ProductOrder[keys[k][1]]
                                          /\ r.action_type_id = keys[k][2])
        IN [product_name |-> ProductOrder[keys[k][1]],
            action_type_id |-> keys[k][2],
            action_threshold |-> Quantile70(UsageTotals(g))]]

\* per-customer distinct days and total usage of one (product, action)
UserMetrics(action_data) ==
  LET keys == CustomerKeys(action_data)
  IN [k \in 1..Len(keys) |->
        [customerid |-> keys[k],
         event_date |-> Cardinality(Range(GroupColumn(action_data, keys[k], "event_date"))),
         usage_count |-> SumSeq(GroupColumn(action_data, keys[k], "usage_count"))]]

meets_days(u, day_threshold) == u.event_date >= day_threshold
meets_actions(u, action_threshold) ==
  u.usage_count * action_threshold.den >= action_threshold.num

\* SegmentCounts counting every user meeting the day threshold as frequent-light
SegmentCountsDaysOnly(um, day_threshold, action_threshold) ==
  [power_users |->
     Len(SelectSeq(um, LAMBDA u : meets_days(u, day_threshold) /\ meets_actions(u, action_threshold))),
   frequent_light_users |->
     Len(SelectSeq(um, LAMBDA u : meets_days(u, day_threshold))),
   intensive_irregular_users |->
     Len(SelectSeq(um, LAMBDA u : ~meets_days(u, day_threshold) /\ meets_actions(u, action_threshold)))]

SegmentCounts(um, day_threshold, action_threshold) ==
  [power_users |->
     Len(SelectSeq(um, LAMBDA u : meets_days(u, day_threshold) /\ meets_actions(u, action_threshold))),
   frequent_light_users |->
     Len(SelectSeq(um, LAMBDA u : meets_days(u, day_threshold) /\ ~meets_actions(u, action_threshold))),
   intensive_irregular_users |->
     Len(SelectSeq(um, LAMBDA u : ~meets_days(u, day_threshold) /\ meets_actions(u, action_threshold)))]

\* the row appended for one (product, action_id)
SegmentRow(df, thresholds, product, action_id) ==
  LET day_threshold == STICKINESS_THRESHOLDS(product)
      action_data == SelectSeq(df, LAMBDA r : /\ r.product_name = product
                                                /\ r.action_type_id = action_id)
      action_threshold ==
        SelectSeq(thresholds, LAMBDA t : /\ t.product_name = product
                                         /\ t.action_type_id = action_id)[1].action_threshold
      um == UserMetrics(action_data)
      total_users == Len(um)
      n == SegmentCounts(um, day_threshold, action_threshold)
  IN [product_name |-> product,
      action_type_id |-> action_id,
      day_threshold |-> day_threshold,
      action_threshold |-> action_threshold,
      total_users |-> total_users,
      power_users |-> n.power_users,
      power_users_pct |-> Ratio(n.power_users, total_users),
      frequent_light_users |-> n.frequent_light_users,
      frequent_light_pct |-> Ratio(n.frequent_light_users, total_users),
      intensive_irregular_users |-> n.intensive_irregular_users,
      intensive_irregular_pct |-> Ratio(n.intensive_irregular_users, total_users),
      median_days |-> Median(Column(um, "event_date")),
      median_actions |-> Median(Column(um, "usage_count"))]

analyze_user_segments(df, thresholds) ==
  LET products == DropNa(Unique(Column(df, "product_name")))
  IN Flatten([p \in 1..Len(products) |->
       LET product_users == SelectSeq(df, LAMBDA r : r.product_name = products[p])
           actions == Unique(Column(product_users, "action_type_id"))
       IN [a \in 1..Len(actions) |->
             SegmentRow(df, thresholds, products[p], actions[a])]])

----------------------------------------------------------------------------
(* Input tables *)

CustomerIds == {1, 2}
ProductNames == {"TurboTax", "Mint"}
ChannelNames == {"web", "email"}

\* customers.csv rows after load_data: signup_date is never NaT.
\* Attribution records vary who signed up when, for which product, through
\* which channel; lifecycle records carry one lifecycle date each (a
\* customer with several of them combines the dates).
ProductChannelPairs ==
  {<<NULL, NULL>>, <<"TurboTax", "web">>, <<"Mint", "email">>,
   <<NULL, "email">>, <<"Mint", NULL>>}

AttributionRecs ==
  {[customerid |-> c, signup_date |-> d, product_name |-> pch[1], channel |-> pch[2],
    first_activation_date |-> NaT, first_purchase_date |-> NaT, cancel_date |-> NaT] :
     c \in CustomerIds, d \in {1, 5}, pch \in ProductChannelPairs}

LifecycleRecs ==
  {[customerid |-> 1, signup_date |-> 5, product_name |-> "Mint", channel |-> "email",
    first_activation_date |-> l[1], first_purchase_date |-> l[2], cancel_date |-> l[3]] :
     l \in {<<10, NaT, NaT>>, <<NaT, 12, NaT>>, <<NaT, NaT, 20>>}}

CustomerRecs == AttributionRecs \cup LifecycleRecs

Tables(Recs, n) == UNION {[1..k -> Recs] : k \in 0..n}

NoResults ==
  /\ customer_summary = <<>>
  /\ daily_usage = <<>>
  /\ user_activity = <<>>
  /\ cohort_metrics = <<>>
  /\ overall_metrics = <<>>
  /\ weekly_metrics = <<>>
  /\ action_thresholds = <<>>
  /\ segments = <<>>
  /\ weekly_stickiness = <<>>
  /\ user_metrics = <<>>
  /\ total_weeks = 0
  /\ error = <<>>
  /\ kmeans = <<>>
  /\ user_segments = <<>>
  /\ transition_locals = <<>>
  /\ transition_data = <<>>
  /\ purchase_metrics = <<>>
  /\ channel_metrics = <<>>
  /\ channel_trends = <<>>
  /\ multi_channel_analysis = <<>>
  /\ activation_insights = <<>>
  /\ kpis = <<>>
  /\ date_range = <<>>
  /\ previous = <<>>

NoOutputs ==
  /\ NoResults
  /\ usage_csv = <<>>

InitCustomer ==
  /\ customers_df \in Tables(CustomerRecs, MaxCustRows)
  /\ usage_df = <<>>
  /\ pc = "loaded"
  /\ args = <<>>
  /\ NoOutputs

GetCustomerSummary ==
  /\ pc = "loaded"
  /\ customer_summary' = get_customer_summary(customers_df)
  /\ pc' = "get_customer_summary"
  /\ UNCHANGED <<customers_df, usage_df, args, daily_usage, user_activity,
                 cohort_metrics, overall_metrics, weekly_metrics,
                 action_thresholds, segments,
                 weekly_stickiness, segmentation_vars, transition_vars,
                 purchase_metrics,
                 channel_vars, dashboard_vars, previous>>

NextCustomer == GetCustomerSummary

SpecCustomer == InitCustomer /\ [][NextCustomer]_vars

\* usage.csv rows after load_data: event_date is never NaT.
UsageEvent(c, d, p, a, n) ==
  [customerid |-> c, event_date |-> d, product_name |-> p,
   action_type_id |-> a, usage_count |-> n]

\* events for the daily aggregation: one key with every action / count, and
\* one more event for each other customer, date and product, null included
DailyEvents ==
  {UsageEvent(1, 1, "TurboTax", a, n) : a \in {1, 2}, n \in {1, 2}}
  \cup {UsageEvent(2, 1, "TurboTax", 1, 1), UsageEvent(1, 2, "TurboTax", 1, 1),
        UsageEvent(1, 1, "Mint", 1, 1), UsageEvent(1, 1, NULL, 1, 1),
        UsageEvent(1, 1, NULL, 2, 2), UsageEvent(2, 1, NULL, 1, 2)}

\* events for churn: 2024-02-01, 2024-02-09, 2024-02-20 and 2024-03-01 are
\* 29, 21, 10 and 0 days before 2024-03-01
ChurnDates == {1, 9, 20, 30}
ChurnEvents ==
  {UsageEvent(c, d, p, 1, 1) : c \in CustomerIds, d \in ChurnDates, p \in ProductNames}
  \cup {UsageEvent(1, 30, NULL, 1, 1)}

ChurnThresholds == {10, DEFAULT_CHURN_THRESHOLD_DAYS}

\* events for segmentation: TurboTax (2 active days needed) on two days with
\* light and heavy usage, and one event of another action and other products
SegmentEvents ==
  {UsageEvent(c, d, "TurboTax", 1, n) : c \in CustomerIds, d \in {1, 2}, n \in {1, 3}}
  \cup {UsageEvent(1, 1, "TurboTax", 2, 1), UsageEvent(1, 1, "Mint", 1, 1),
        UsageEvent(1, 1, NULL, 1, 1)}

InitUsage(Events, n) ==
  /\ customers_df = <<>>
  /\ usage_df \in Tables(Events, n)
  /\ pc = "loaded"
  /\ args = <<>>
  /\ NoOutputs

InitDaily == InitUsage(DailyEvents, MaxUsageRows)
InitChurn == InitUsage(ChurnEvents, MaxChurnRows)
InitSegments == InitUsage(SegmentEvents, MaxSegRows)

GetDailyUsageSummary ==
  /\ pc = "loaded"
  /\ daily_usage' = get_daily_usage_summary(usage_df)
  /\ pc' = "get_daily_usage_summary"
  /\ UNCHANGED <<customers_df, usage_df, args, customer_summary, user_activity,
                 cohort_metrics, overall_metrics, weekly_metrics,
                 action_thresholds, segments,
                 weekly_stickiness, segmentation_vars, transition_vars,
                 purchase_metrics,
                 channel_vars, dashboard_vars, previous>>

CalculateChurnMetrics ==
  /\ pc = "loaded"
  /\ \E product \in ProductNames, churn_threshold_days \in ChurnThresholds :
       /\ args' = [product |-> product, churn_threshold_days |-> churn_threshold_days]
       /\ user_activity' = ProductUserActivity(usage_df, product, churn_threshold_days)
       /\ cohort_metrics' = calculate_churn_metrics(usage_df, product, churn_threshold_days)
  /\ pc' = "calculate_churn_metrics"
  /\ UNCHANGED <<customers_df, usage_df, customer_summary, daily_usage,
                 overall_metrics, weekly_metrics, action_thresholds, segments,
                 weekly_stickiness, segmentation_vars, transition_vars,
                 purchase_metrics,
                 channel_vars, dashboard_vars, previous>>

CalculateConsolidatedChurnMetrics ==
  /\ pc = "loaded"
  /\ \E churn_threshold_days \in ChurnThresholds :
       /\ args' = [churn_threshold_days |-> churn_threshold_days]
       /\ user_activity' = ConsolidatedUserActivity(usage_df, churn_threshold_days)
       /\ overall_metrics' = OverallMetrics(user_activity')
       /\ weekly_metrics' = CohortMetrics(user_activity')
  /\ pc' = "calculate_consolidated_churn_metrics"
  /\ UNCHANGED <<customers_df, usage_df, customer_summary, daily_usage,
                 cohort_metrics, action_thresholds, segments,
                 weekly_stickiness, segmentation_vars, transition_vars,
                 purchase_metrics,
                 channel_vars, dashboard_vars, previous>>

\* calculate_action_stickiness: thresholds, then segments, of the same table
AnalyzeUserSegments ==
  /\ pc = "loaded"
  /\ action_thresholds' = get_action_thresholds(usage_df)
  /\ segments' = analyze_user_segments(usage_df, action_thresholds')
  /\ pc' = "analyze_user_segments"
  /\ UNCHANGED <<customers_df, usage_df, args, customer_summary, daily_usage,
                 user_activity, cohort_metrics, overall_metrics, weekly_metrics,
                 weekly_stickiness, segmentation_vars, transition_vars,
                 purchase_metrics,
                 channel_vars, dashboard_vars, previous>>

NextDaily == GetDailyUsageSummary
NextChurn == CalculateChurnMetrics \/ CalculateConsolidatedChurnMetrics
NextSegments == AnalyzeUserSegments

SpecDaily == InitDaily /\ [][NextDaily]_vars
SpecChurn == InitChurn /\ [][NextChurn]_vars
SpecSegments == InitSegments /\ [][NextSegments]_vars

----------------------------------------------------------------------------
(* Stickiness configuration (main_dashboard.show_stickiness_config) *)

DEFAULT_ACTION_PERCENTILE == 70

\* the slider: 50 to 90 in steps of 5
ActionPercentiles == {50 + 5 * i : i \in 0..8}

InitConfig ==
  /\ customers_df = <<>>
  /\ usage_df \in Tables(SegmentEvents, MaxConfigRows)
  /\ pc = "loaded"
  /\ args = [action_percentile |-> DEFAULT_ACTION_PERCENTILE]
  /\ NoOutputs

\* the slider is moved; the function returns the selected percentile
ShowStickinessConfig ==
  /\ pc = "loaded"
  /\ \E action_percentile \in ActionPercentiles \ {args.action_percentile} :
       args' = [action_percentile |-> action_percentile]
  /\ pc' = "show_stickiness_config"
  /\ UNCHANGED <<customers_df, usage_df, customer_summary, daily_usage,
                 user_activity, cohort_metrics, overall_metrics, weekly_metrics,
                 action_thresholds, segments, weekly_stickiness,
                 segmentation_vars, transition_vars, purchase_metrics,
                 channel_vars, dashboard_vars, previous>>

\* calculate_action_stickiness(usage_df), before or after the slider is moved
CalculateActionStickiness ==
  /\ pc \in {"loaded", "show_stickiness_config"}
  /\ action_thresholds' = get_action_thresholds(usage_df)
  /\ segments' = analyze_user_segments(usage_df, action_thresholds')
  /\ pc' = "analyze_user_segments"
  /\ UNCHANGED <<customers_df, usage_df, args, customer_summary, daily_usage,
                 user_activity, cohort_metrics, overall_metrics, weekly_metrics,
                 weekly_stickiness, segmentation_vars, transition_vars,
                 purchase_metrics,
                 channel_vars, dashboard_vars, previous>>

NextConfig == ShowStickinessConfig \/ CalculateActionStickiness

SpecConfig == InitConfig /\ [][NextConfig]_vars

----------------------------------------------------------------------------
(* calculate_time_based_stickiness *)

WeekData(df, week) == SelectSeq(df, LAMBDA r : WeekStart(r.event_date) = week)

\* WeeklySegments with the thresholds of the whole table
WeeklySegmentsGlobalThresholds(df, week) ==
  LET week_data == WeekData(df, week)
      segs == analyze_user_segments(week_data, get_action_thresholds(df))
  IN [k \in 1..Len(segs) |-> segs[k] @@ [week |-> week]]

\* the rows of one week: thresholds and segments of that week's events
WeeklySegments(df, week) ==
  LET week_data == WeekData(df, week)
      segs == analyze_user_segments(week_data, get_action_thresholds(week_data))
  IN [k \in 1..Len(segs) |-> segs[k] @@ [week |-> week]]

calculate_time_based_stickiness(df) ==
  LET weeks == SortedSeq({WeekStart(df[i].event_date) : i \in 1..Len(df)})
  IN Flatten([w \in 1..Len(weeks) |-> WeeklySegments(df, weeks[w])])

\* events in two calendar weeks (2024-02-01 and 02 against 2024-02-08)
WeeklyEvents ==
  {UsageEvent(c, d, "TurboTax", 1, n) : c \in CustomerIds, d \in {1, 2, 8}, n \in {1, 3}}
  \cup {UsageEvent(1, 1, NULL, 1, 1)}

InitWeekly == InitUsage(WeeklyEvents, MaxWeeklyRows)

\* pd.concat of an empty list of weeks raises
CalculateTimeBasedStickiness ==
  /\ pc = "loaded"
  /\ IF usage_df = <<>>
     THEN /\ error' = <<"ValueError", "No objects to concatenate">>
          /\ pc' = "error"
          /\ UNCHANGED weekly_stickiness
     ELSE /\ weekly_stickiness' = calculate_time_based_stickiness(usage_df)
          /\ pc' = "calculate_time_based_stickiness"
          /\ UNCHANGED error
  /\ UNCHANGED <<customers_df, usage_df, args, customer_summary, daily_usage,
                 user_activity, cohort_metrics, overall_metrics, weekly_metrics,
                 action_thresholds, segments, user_metrics, total_weeks, kmeans,
                 user_segments, transition_vars, purchase_metrics,
                 channel_vars, dashboard_vars, previous>>

NextWeekly == CalculateTimeBasedStickiness

SpecWeekly == InitWeekly /\ [][NextWeekly]_vars

----------------------------------------------------------------------------
(* prepare_user_metrics, cluster_users *)

RatioAdd(a, b) == Ratio(a.num * b.den + b.num * a.den, a.den * b.den)
RatioMul(a, b) == Ratio(a.num * b.num, a.den * b.den)
RatioLess(a, b) == a.num * b.den < b.num * a.den

RECURSIVE RatioSum(_)
RatioSum(s) == IF s = <<>> THEN Ratio(0, 1) ELSE RatioAdd(Head(s), RatioSum(Tail(s)))

\* Series.mean() of a non-empty column of ratios
RatioMean(s) == Ratio(RatioSum(s).num, RatioSum(s).den * Len(s))

\* a None product compares unequal to every row
ProductDf(df, product) ==
  SelectSeq(df, LAMBDA r : r.product_name = product /\ r.product_name # NULL)

PreparedUserMetrics(product_df) ==
  LET ids == SortedSeq({product_df[i].customerid : i \in 1..Len(product_df)})
      rows(c) == {i \in 1..Len(product_df) : product_df[i].customerid = c}
      row(c) ==
        LET days_active == Cardinality({product_df[i].event_date : i \in rows(c)})
            weeks_active ==
              Cardinality({WeekStart(product_df[i].event_date) : i \in rows(c)})
            total_actions ==
              SumSeq([k \in 1..Len(product_df) |->
                        IF k \in rows(c) THEN product_df[k].usage_count ELSE 0])
        IN [customerid |-> c,
            days_active |-> days_active,
            weeks_active |-> weeks_active,
            action_variety |->
              Cardinality({product_df[i].action_type_id : i \in rows(c)}),
            total_actions |-> total_actions,
            days_per_week |-> Ratio(days_active, weeks_active),
            actions_per_week |-> Ratio(total_actions, weeks_active)]
  IN [k \in 1..Len(ids) |-> row(ids[k])]

\* prepare_user_metrics without the check for an empty selection
prepare_user_metricsUnchecked(df, product) ==
  LET product_df == ProductDf(df, product)
  IN [raised |-> <<>>,
      user_metrics |-> PreparedUserMetrics(product_df),
      total_weeks |->
        Cardinality({WeekStart(product_df[i].event_date) : i \in 1..Len(product_df)})]

\* the outcome of prepare_user_metrics: the exception raised, or the pair
\* (user_metrics, total_weeks) returned
prepare_user_metrics(df, product) ==
  LET product_df == ProductDf(df, product)
  IN IF product_df = <<>>
     THEN [raised |-> <<"ValueError", "No valid data found for product: ", product>>,
           user_metrics |-> <<>>,
           total_weeks |-> 0]
     ELSE [raised |-> <<>>,
           user_metrics |-> PreparedUserMetrics(product_df),
           total_weeks |->
             Cardinality({WeekStart(product_df[i].event_date) :
                            i \in 1..Len(product_df)})]

N_CLUSTERS == 3
ClusterIds == 0..(N_CLUSTERS - 1)
SEGMENT_LABELS == <<"Infrequent Users", "Regular Users", "Power Users">>

\* the feature matrix X (no metric is NaN: weeks_active >= 1)
FeatureRow(r) ==
  [days_per_week |-> r.days_per_week,
   actions_per_week |-> r.actions_per_week,
   action_variety |-> Ratio(r.action_variety, 1),
   total_actions |-> Ratio(r.total_actions, 1)]

Members(labels, c) == {i \in DOMAIN labels : labels[i] = c}

Centroid(X, members) ==
  LET ms == SortedSeq(members)
      col(f) == [k \in 1..Len(ms) |-> X[ms[k]][f]]
  IN [days_per_week |-> RatioMean(col("days_per_week")),
      actions_per_week |-> RatioMean(col("actions_per_week")),
      action_variety |-> RatioMean(col("action_variety")),
      total_actions |-> RatioMean(col("total_actions"))]

\* what KMeans(n_clusters).fit_predict can return: any assignment of cluster
\* ids to the users; a centre is the mean of its members, the centre of a
\* cluster left empty lies on one of the points
KMeansFits(X) ==
  UNION {{[labels |-> labels,
           cluster_centers |->
             [c \in ClusterIds |->
                IF c \in DOMAIN e THEN X[e[c]]
                ELSE Centroid(X, Members(labels, c))]] :
            e \in [{c \in ClusterIds : Members(labels, c) = {}} -> 1..Len(X)]} :
         labels \in [1..Len(X) -> ClusterIds]}

ActivityScore(cluster_centers) ==
  [c \in ClusterIds |->
     RatioMul(cluster_centers[c].days_per_week, cluster_centers[c].actions_per_week)]

\* Series.argsort(): cluster ids by ascending score, equal scores by id
RECURSIVE ArgSort(_, _)
ArgSort(score, ids) ==
  IF ids = {} THEN <<>>
  ELSE LET m == CHOOSE c \in ids : \A d \in ids \ {c} :
                  \/ RatioLess(score[c], score[d])
                  \/ ~RatioLess(score[d], score[c]) /\ c < d
       IN <<m>> \o ArgSort(score, ids \ {m})

\* ClusterMap pairing the labels with the cluster ids 0, 1, 2 in order
ClusterMapById(activity_score) ==
  [c \in ClusterIds |-> SEGMENT_LABELS[c + 1]]

\* dict(zip(activity_score.argsort(), labels))
ClusterMap(activity_score) ==
  LET order == ArgSort(activity_score, ClusterIds)
  IN [c \in ClusterIds |->
        SEGMENT_LABELS[CHOOSE i \in 1..Len(order) : order[i] = c]]

cluster_users(um, km) ==
  LET cluster_map == ClusterMap(ActivityScore(km.cluster_centers))
  IN [i \in 1..Len(um) |->
        um[i] @@ [cluster |-> km.labels[i], segment |-> cluster_map[km.labels[i]]]]

\* three customers on two days of one week with light and medium usage, one
\* of them with heavy usage in the next week; one event of another product
\* and one of a null product
ClusterCustomerIds == {1, 2, 3}
ClusterEvents ==
  {UsageEvent(c, 1, "TurboTax", 1, 1) : c \in ClusterCustomerIds}
  \cup {UsageEvent(c, 2, "TurboTax", 1, 2) : c \in ClusterCustomerIds}
  \cup {UsageEvent(3, 8, "TurboTax", 1, 3),
        UsageEvent(1, 1, "Mint", 1, 1), UsageEvent(1, 1, NULL, 1, 1)}

SelectableProducts == {"TurboTax", "Mint", "QuickBooks", NULL}

InitSegmentation == InitUsage(ClusterEvents, MaxPrepareRows)

PrepareUserMetrics ==
  /\ pc = "loaded"
  /\ \E product \in SelectableProducts :
       LET outcome == prepare_user_metrics(usage_df, product)
       IN /\ args' = [product |-> product]
          /\ error' = outcome.raised
          /\ user_metrics' = outcome.user_metrics
          /\ total_weeks' = outcome.total_weeks
          /\ pc' = IF outcome.raised # <<>> THEN "prepare_user_metrics_raised"
                   ELSE "prepare_user_metrics"
  /\ UNCHANGED <<customers_df, usage_df, customer_summary, daily_usage,
                 user_activity, cohort_metrics, overall_metrics, weekly_metrics,
                 action_thresholds, segments, weekly_stickiness, kmeans,
                 user_segments, transition_vars, purchase_metrics,
                 channel_vars, dashboard_vars, previous>>

\* KMeans refuses fewer samples than clusters; the segment column is added
\* to the user_metrics frame passed in, which is also the frame returned
ClusterUsers ==
  /\ pc = "prepare_user_metrics"
  /\ IF Len(user_metrics) < N_CLUSTERS
     THEN /\ error' = <<"ValueError", "n_samples should be >= n_clusters">>
          /\ pc' = "cluster_users_raised"
          /\ UNCHANGED <<user_metrics, kmeans, user_segments>>
     ELSE /\ \E km \in KMeansFits([i \in 1..Len(user_metrics) |->
                                      FeatureRow(user_metrics[i])]) :
               /\ kmeans' = km
               /\ user_segments' = cluster_users(user_metrics, km)
               /\ user_metrics' = user_segments'
          /\ pc' = "cluster_users"
          /\ UNCHANGED error
  /\ UNCHANGED <<customers_df, usage_df, args, customer_summary, daily_usage,
                 user_activity, cohort_metrics, overall_metrics, weekly_metrics,
                 action_thresholds, segments, weekly_stickiness, total_weeks,
                 transition_vars, purchase_metrics,
                 channel_vars, dashboard_vars, previous>>

NextSegmentation == PrepareUserMetrics \/ ClusterUsers

SpecSegmentation == InitSegmentation /\ [][NextSegmentation]_vars

----------------------------------------------------------------------------
(* analyze_product_transitions *)

RemoveAt(s, i) == SubSeq(s, 1, i - 1) \o SubSeq(s, i + 1, Len(s))

\* sort_values(['customerid', 'event_date']): rows with equal keys keep their
\* order
RECURSIVE SortByCustomerDate(_)
SortByCustomerDate(df) ==
  IF df = <<>> THEN <<>>
  ELSE LET i == CHOOSE i \in 1..Len(df) : \A j \in 1..Len(df) \ {i} :
                  KeyLess(<<df[i].customerid, df[i].event_date, i>>,
                          <<df[j].customerid, df[j].event_date, j>>)
       IN <<df[i]>> \o SortByCustomerDate(RemoveAt(df, i))

\* sort_values('event_date') of a customer's few rows: rows with equal dates
\* keep their order
RECURSIVE SortByEventDate(_)
SortByEventDate(df) ==
  IF df = <<>> THEN <<>>
  ELSE LET i == CHOOSE i \in 1..Len(df) : \A j \in 1..Len(df) \ {i} :
                  KeyLess(<<df[i].event_date, i>>, <<df[j].event_date, j>>)
       IN <<df[i]>> \o SortByEventDate(RemoveAt(df, i))

FirstUsageRow(usage_sorted, c, p) ==
  [customerid |-> c,
   product_name |-> p,
   event_date |->
     MinDate({usage_sorted[i].event_date :
                i \in {j \in 1..Len(usage_sorted) :
                         /\ usage_sorted[j].customerid = c
                         /\ usage_sorted[j].product_name = p}})]

\* FirstProductUsage with the groups in order of first appearance
FirstProductUsageByAppearance(usage_sorted) ==
  LET keys == Unique([i \in 1..Len(usage_sorted) |->
                        <<usage_sorted[i].customerid, usage_sorted[i].product_name>>])
  IN [k \in 1..Len(keys) |-> FirstUsageRow(usage_sorted, keys[k][1], keys[k][2])]

\* groupby(['customerid', 'product_name'])['event_date'].min().reset_index():
\* one row per pair, in the order of the sorted group keys
FirstProductUsage(usage_sorted) ==
  LET keys == SortKeys({<<usage_sorted[i].customerid,
                          ProductRank(usage_sorted[i].product_name)>> :
                          i \in 1..Len(usage_sorted)})
  IN [k \in 1..Len(keys) |->
        FirstUsageRow(usage_sorted, keys[k][1], ProductOrder[keys[k][2]])]

CustomerProducts(first_product_usage, customer) ==
  SortByEventDate(SelectSeq(first_product_usage,
                            LAMBDA r : r.customerid = customer))

\* TransitionsOf with from_date and to_date exchanged
TransitionsOfReversed(customer_products) ==
  [i \in 1..(Len(customer_products) - 1) |->
     [from_product |-> customer_products[i].product_name,
      to_product |-> customer_products[i + 1].product_name,
      days |-> customer_products[i].event_date - customer_products[i + 1].event_date]]

\* the transitions recorded for one customer
TransitionsOf(customer_products) ==
  [i \in 1..(Len(customer_products) - 1) |->
     [from_product |-> customer_products[i].product_name,
      to_product |-> customer_products[i + 1].product_name,
      days |-> customer_products[i + 1].event_date - customer_products[i].event_date]]

TransitionKey(t) == <<t.from_product, t.to_product>>

TransitionCounts(transition_times) ==
  [key \in {TransitionKey(transition_times[i]) : i \in 1..Len(transition_times)} |->
     Cardinality({i \in 1..Len(transition_times) :
                    TransitionKey(transition_times[i]) = key})]

\* sorted(...unique()) of the non-null product names
SortedProducts(df) ==
  LET ranks == SortedSeq({ProductRank(df[i].product_name) : i \in 1..Len(df)})
  IN [k \in 1..Len(ranks) |-> ProductOrder[ranks[k]]]

\* TransitionMatrix over the products that occur in a transition only
TransitionMatrixOfTransitions(products, transition_counts) ==
  LET used == {key[1] : key \in DOMAIN transition_counts}
                \cup {key[2] : key \in DOMAIN transition_counts}
  IN [index |-> SelectSeq(products, LAMBDA p : p \in used),
      cells |-> [key \in used \X used |->
                   IF key \in DOMAIN transition_counts
                   THEN transition_counts[key] ELSE 0]]

\* DataFrame(0, index=products, columns=products) filled from the counts
TransitionMatrix(products, transition_counts) ==
  [index |-> products,
   cells |-> [key \in Range(products) \X Range(products) |->
                IF key \in DOMAIN transition_counts
                THEN transition_counts[key] ELSE 0]]

\* value_counts() of the journeys (a journey string is kept as the sequence
\* of the names it joins)
\* JourneyPatterns listing each journey once
JourneyPatternsOncePerJourney(customer_journeys) ==
  [journey \in Range(customer_journeys) |-> 1]

JourneyPatterns(customer_journeys) ==
  [journey \in Range(customer_journeys) |->
     Cardinality({i \in 1..Len(customer_journeys) : customer_journeys[i] = journey})]

AvgTransitionTimes(transition_times) ==
  LET keys == SortKeys({<<ProductRank(transition_times[i].from_product),
                          ProductRank(transition_times[i].to_product)>> :
                          i \in 1..Len(transition_times)})
      days(k) ==
        Column(SelectSeq(transition_times,
                         LAMBDA t : /\ ProductRank(t.from_product) = keys[k][1]
                                    /\ ProductRank(t.to_product) = keys[k][2]),
               "days")
  IN [k \in 1..Len(keys) |->
        [from_product |-> ProductOrder[keys[k][1]],
         to_product |-> ProductOrder[keys[k][2]],
         mean |-> Ratio(SumSeq(days(k)), Len(days(k))),
         median |-> Median(days(k)),
         count |-> Len(days(k))]]

get_products_per_customer(df) ==
  LET ids == {df[i].customerid : i \in 1..Len(df)}
      num_products(c) ==
        Cardinality({df[i].product_name :
                       i \in {j \in 1..Len(df) : df[j].customerid = c}})
      nums == SortedSeq({num_products(c) : c \in ids})
      num_customers(n) == Cardinality({c \in ids : num_products(c) = n})
  IN [distribution |->
        [k \in 1..Len(nums) |->
           [num_products |-> nums[k],
            num_customers |-> num_customers(nums[k]),
            percentage |-> Ratio(num_customers(nums[k]) * 100, Cardinality(ids))]],
      total_customers |-> Cardinality(ids)]

\* the lists built by the loop over the customers
TransitionLocals(df) ==
  LET first_product_usage == FirstProductUsage(SortByCustomerDate(df))
      customers == Unique(Column(first_product_usage, "customerid"))
      customer_products(k) == CustomerProducts(first_product_usage, customers[k])
      transition_times ==
        Flatten([k \in 1..Len(customers) |-> TransitionsOf(customer_products(k))])
  IN [customer_journeys |->
        [k \in 1..Len(customers) |-> Column(customer_products(k), "product_name")],
      transition_counts |-> TransitionCounts(transition_times),
      transition_times |-> transition_times]

analyze_product_transitions(df, locals) ==
  [transition_matrix |-> TransitionMatrix(SortedProducts(df), locals.transition_counts),
   journey_patterns |-> JourneyPatterns(locals.customer_journeys),
   avg_transition_times |-> AvgTransitionTimes(locals.transition_times),
   products_per_customer |-> get_products_per_customer(df).distribution,
   total_customers |-> get_products_per_customer(df).total_customers]

\* adoptions on 2024-02-01 and 2024-02-11 by two customers, and one event
\* of a null product
TransitionEvents ==
  {UsageEvent(c, d, p, 1, 1) : c \in CustomerIds, d \in {1, 11}, p \in ProductNames}
  \cup {UsageEvent(1, 1, "QuickBooks", 1, 1), UsageEvent(1, 11, "QuickBooks", 1, 1),
        UsageEvent(1, 1, NULL, 1, 1)}

InitTransitions == InitUsage(TransitionEvents, MaxTransRows)

AnalyzeProductTransitions ==
  /\ pc = "loaded"
  /\ LET df == SelectSeq(usage_df, LAMBDA r : r.product_name # NULL)
     IN /\ transition_locals' = TransitionLocals(df)
        /\ transition_data' = analyze_product_transitions(df, transition_locals')
  /\ pc' = "analyze_product_transitions"
  /\ UNCHANGED <<customers_df, usage_df, args, customer_summary, daily_usage,
                 user_activity, cohort_metrics, overall_metrics, weekly_metrics,
                 action_thresholds, segments, weekly_stickiness,
                 segmentation_vars, purchase_metrics,
                 channel_vars, dashboard_vars, previous>>

NextTransitions == AnalyzeProductTransitions

SpecTransitions == InitTransitions /\ [][NextTransitions]_vars

----------------------------------------------------------------------------
(* calculate_purchase_metrics *)

\* (first_purchase_date - first_activation_date).dt.days: NaN when a date is
\* missing
TimeToPurchase(r) ==
  IF r.first_activation_date = NaT \/ r.first_purchase_date = NaT THEN NaN
  ELSE Ratio(r.first_purchase_date - r.first_activation_date, 1)

WithTimeToPurchase(df) ==
  [i \in 1..Len(df) |-> df[i] @@ [time_to_purchase |-> TimeToPurchase(df[i])]]

\* comparisons with NaN are false
IsNegative(x) == x # NaN /\ x.num < 0
IsNonNegative(x) == x # NaN /\ x.num >= 0

NegativeTimeCases(df) ==
  Cardinality({df[i].customerid :
                 i \in {j \in 1..Len(df) : IsNegative(df[j].time_to_purchase)}})

ActivatedCount(data) ==
  Cardinality({data[i].customerid :
                 i \in {j \in 1..Len(data) : data[j].first_activation_date # NaT}})

\* PurchasedCustomers among the records that have an activation date
PurchasedCustomersActivated(data) ==
  Unique(Column(SelectSeq(data, LAMBDA r : /\ r.first_purchase_date # NaT
                                            /\ r.first_activation_date # NaT),
                "customerid"))

PurchasedCustomers(data) ==
  Unique(Column(SelectSeq(data, LAMBDA r : r.first_purchase_date # NaT), "customerid"))

\* UsedCount over all customers with usage
UsedCountAnyCustomer(usage, purchased_customers) ==
  Cardinality({usage[i].customerid :
                 i \in {j \in 1..Len(usage) : usage[j].event_date # NaT}})

UsedCount(usage, purchased_customers) ==
  Cardinality({usage[i].customerid :
                 i \in {j \in 1..Len(usage) :
                          /\ usage[j].event_date # NaT
                          /\ usage[j].customerid \in Range(purchased_customers)}})

\* a / b if b > 0 else 0
GuardedRate(a, b) == IF b > 0 THEN Ratio(a, b) ELSE Ratio(0, 1)

\* AvgTimeToPurchase over every record that has both dates
AvgTimeToPurchaseSigned(data) ==
  LET times == SelectSeq(data, LAMBDA r : r.time_to_purchase # NaN)
  IN Ratio(SumSeq([k \in 1..Len(times) |-> times[k].time_to_purchase.num]),
           Len(times))

\* mean of the non-negative time_to_purchase values, NaN when there is none
AvgTimeToPurchase(data) ==
  LET times == SelectSeq(data, LAMBDA r : IsNonNegative(r.time_to_purchase))
  IN Ratio(SumSeq([k \in 1..Len(times) |-> times[k].time_to_purchase.num]),
           Len(times))

\* the counts and rates of one group of customer records and its usage rows
FunnelMetrics(data, usage) ==
  LET activated == ActivatedCount(data)
      purchased == Len(PurchasedCustomers(data))
      used == UsedCount(usage, PurchasedCustomers(data))
  IN [activated |-> activated,
      purchased |-> purchased,
      used |-> used,
      purchase_rate |-> GuardedRate(purchased, activated),
      usage_rate |-> GuardedRate(used, purchased),
      avg_time_to_purchase |-> AvgTimeToPurchase(data)]

calculate_purchase_metrics(customers, usage) ==
  LET df == WithTimeToPurchase(customers)
      products == Unique(DropNa(Column(df, "product_name")))
  IN [overall |->
        FunnelMetrics(df, usage) @@ [negative_time_cases |-> NegativeTimeCases(df)],
      by_product |->
        [k \in 1..Len(products) |->
           FunnelMetrics(SelectSeq(df, LAMBDA r : r.product_name = products[k]),
                         SelectSeq(usage, LAMBDA u : u.product_name = products[k]))
             @@ [product |-> products[k]]]]

\* Customers.csv rows: activated only, purchased 3 days after or 2 days
\* before activation, purchased without an activation date
FunnelCustomer(c, p, dates) ==
  [customerid |-> c, product_name |-> p,
   first_activation_date |-> dates[1], first_purchase_date |-> dates[2]]

FunnelDates == {<<5, NaT>>, <<5, 8>>, <<5, 3>>, <<NaT, 8>>}

FunnelCustomerRecs ==
  {FunnelCustomer(1, p, dates) : p \in ProductNames, dates \in FunnelDates}
  \cup {FunnelCustomer(2, "Mint", dates) : dates \in FunnelDates}
  \cup {FunnelCustomer(1, NULL, <<5, 8>>)}

\* Usage.csv rows, one of them with an unparseable event_date
FunnelUsageRecs ==
  {UsageEvent(1, 1, "Mint", 1, 1), UsageEvent(2, 1, "Mint", 1, 1),
   UsageEvent(1, 1, "TurboTax", 1, 1), UsageEvent(1, NaT, "Mint", 1, 1)}

InitFunnel ==
  /\ customers_df \in Tables(FunnelCustomerRecs, MaxFunnelCustRows)
  /\ usage_df \in Tables(FunnelUsageRecs, MaxFunnelUsageRows)
  /\ pc = "loaded"
  /\ args = <<>>
  /\ NoOutputs

CalculatePurchaseMetrics ==
  /\ pc = "loaded"
  /\ purchase_metrics' = calculate_purchase_metrics(customers_df, usage_df)
  /\ pc' = "calculate_purchase_metrics"
  /\ UNCHANGED <<customers_df, usage_df, args, customer_summary, daily_usage,
                 user_activity, cohort_metrics, overall_metrics, weekly_metrics,
                 action_thresholds, segments, weekly_stickiness,
                 segmentation_vars, transition_vars,
                 channel_vars, dashboard_vars, previous>>

NextFunnel == CalculatePurchaseMetrics

SpecFunnel == InitFunnel /\ [][NextFunnel]_vars

----------------------------------------------------------------------------
(* analyze_multi_channel_distribution *)

\* channel names in string order
ChannelOrder == <<"email", "web">>
ChannelRank(ch) == CHOOSE i \in 1..Len(ChannelOrder) : ChannelOrder[i] = ch

\* sorted(channels)
SortedChannels(channels) ==
  LET ranks == SortValues([i \in 1..Len(channels) |-> ChannelRank(channels[i])])
  IN [i \in 1..Len(ranks) |-> ChannelOrder[ranks[i]]]

\* ' + '.join(names): the names with the separator between them
RECURSIVE JoinPlus(_)
JoinPlus(names) ==
  IF Len(names) <= 1 THEN names
  ELSE <<Head(names), " + ">> \o JoinPlus(Tail(names))

\* get_channel_combo joining the channels in the order of the list
get_channel_comboUnsorted(channels) == JoinPlus(channels)

get_channel_combo(channels) == JoinPlus(SortedChannels(channels))

\* value_counts(): distinct values by descending count, equal counts in
\* order of first appearance
RECURSIVE SortCountsDescending(_)
SortCountsDescending(rows) ==
  IF rows = <<>> THEN <<>>
  ELSE LET i == CHOOSE i \in 1..Len(rows) : \A j \in 1..Len(rows) \ {i} :
                  KeyLess(<<rows[j].count, i>>, <<rows[i].count, j>>)
       IN <<rows[i]>> \o SortCountsDescending(RemoveAt(rows, i))

ValueCounts(values) ==
  LET keys == Unique(values)
  IN SortCountsDescending(
       [k \in 1..Len(keys) |->
          [value |-> keys[k],
           count |-> Cardinality({i \in 1..Len(values) : values[i] = keys[k]})]])

\* .head(n)
TOP_COMBINATIONS == 10
HeadRows(rows, n) == SubSeq(rows, 1, Min({n, Len(rows)}))

\* groupby('customerid')[col].first(): the value of the first row of each
\* customer, customers ascending
FirstPerCustomer(cs, col) ==
  LET ids == SortedSeq({cs[i].customerid : i \in 1..Len(cs)})
  IN [k \in 1..Len(ids) |->
        cs[Min({i \in 1..Len(cs) : cs[i].customerid = ids[k]})][col]]

ChannelCountDist(cs, total_customers) ==
  LET nums == FirstPerCustomer(cs, "num_channels")
      index == SortedSeq(Range(nums))
  IN [k \in 1..Len(index) |->
        LET count == Cardinality({i \in 1..Len(nums) : nums[i] = index[k]})
        IN [num_channels |-> index[k],
            count |-> count,
            percentage |-> Ratio(count, total_customers)]]

ChannelCombos(cs, total_customers) ==
  LET channels == FirstPerCustomer(cs, "channel")
      combos == [k \in 1..Len(channels) |-> get_channel_combo(channels[k])]
      top == HeadRows(ValueCounts(combos), TOP_COMBINATIONS)
  IN [k \in 1..Len(top) |->
        [combination |-> top[k].value,
         count |-> top[k].count,
         percentage |-> Ratio(top[k].count, total_customers)]]

\* the outcome of analyze_multi_channel_distribution: dividing the two
\* counts raises when there is no customer
analyze_multi_channel_distribution(cs) ==
  LET total_customers == Cardinality({cs[i].customerid : i \in 1..Len(cs)})
      multi_channel_customers ==
        Cardinality({cs[i].customerid :
                       i \in {j \in 1..Len(cs) : cs[j].is_multi_channel}})
  IN IF total_customers = 0
     THEN [raised |-> <<"ZeroDivisionError", "division by zero">>,
           result |-> <<>>]
     ELSE [raised |-> <<>>,
           result |->
             [multi_channel_customers |-> multi_channel_customers,
              multi_channel_pct |-> Ratio(multi_channel_customers, total_customers),
              channel_count_dist |-> ChannelCountDist(cs, total_customers),
              channel_combinations |-> ChannelCombos(cs, total_customers)]]

\* signups of two customers through either channel or none
MultiChannelRecs ==
  {[customerid |-> c, signup_date |-> 5, product_name |-> "Mint", channel |-> ch,
    first_activation_date |-> NaT, first_purchase_date |-> NaT, cancel_date |-> NaT] :
     c \in CustomerIds, ch \in ChannelNames \cup {NULL}}

InitMultiChannel ==
  /\ customers_df \in Tables(MultiChannelRecs, MaxMultiChannelRows)
  /\ usage_df = <<>>
  /\ pc = "loaded"
  /\ args = <<>>
  /\ NoOutputs

AnalyzeMultiChannelDistribution ==
  /\ pc = "get_customer_summary"
  /\ LET outcome == analyze_multi_channel_distribution(customer_summary)
     IN /\ error' = outcome.raised
        /\ multi_channel_analysis' = outcome.result
        /\ pc' = IF outcome.raised # <<>>
                 THEN "analyze_multi_channel_distribution_raised"
                 ELSE "analyze_multi_channel_distribution"
  /\ UNCHANGED <<customers_df, usage_df, args, customer_summary, daily_usage,
                 user_activity, cohort_metrics, overall_metrics, weekly_metrics,
                 action_thresholds, segments, weekly_stickiness, user_metrics,
                 total_weeks, kmeans, user_segments, transition_vars,
                 purchase_metrics, channel_metrics, channel_trends,
                 activation_insights, dashboard_vars, previous>>

NextMultiChannel == GetCustomerSummary \/ AnalyzeMultiChannelDistribution

SpecMultiChannel == InitMultiChannel /\ [][NextMultiChannel]_vars

----------------------------------------------------------------------------
(* show_channel_analytics: time to activation by channel *)

\* round(1) of a non-negative fraction: to the nearest tenth, halves to the
\* even tenth
Round1(r) ==
  LET q == (10 * r.num) \div r.den
      rem == (10 * r.num) % r.den
  IN IF 2 * rem > r.den \/ (2 * rem = r.den /\ q % 2 = 1)
     THEN Ratio(q + 1, 10)
     ELSE Ratio(q, 10)

\* the activated customers with a non-negative days_to_activation
ActivationData(cs) ==
  LET activated == SelectSeq(cs, LAMBDA r : r.activated)
      with_days ==
        [i \in 1..Len(activated) |->
           activated[i] @@
             [days_to_activation |->
                activated[i].first_activation_date - activated[i].signup_date]]
  IN SelectSeq(with_days, LAMBDA r : r.days_to_activation >= 0)

\* groupby('first_signedup_channel') mean and median, rounded
AvgActivationTime(activation_data) ==
  LET ranks ==
        SortedSeq({ChannelRank(activation_data[i].first_signedup_channel) :
                     i \in {j \in 1..Len(activation_data) :
                              activation_data[j].first_signedup_channel # NULL}})
      days(k) ==
        Column(SelectSeq(activation_data,
                         LAMBDA r : r.first_signedup_channel = ChannelOrder[ranks[k]]),
               "days_to_activation")
  IN [k \in 1..Len(ranks) |->
        [first_signedup_channel |-> ChannelOrder[ranks[k]],
         mean_days |-> Round1(Ratio(SumSeq(days(k)), Len(days(k)))),
         median_days |-> Round1(Median(days(k)))]]

\* signups on 2024-02-05 of two customers through either channel or none,
\* not activated, activated two days before or seven days after signup
ChannelRecs ==
  {[customerid |-> c, signup_date |-> 5, product_name |-> "Mint", channel |-> ch,
    first_activation_date |-> a, first_purchase_date |-> NaT, cancel_date |-> NaT] :
     c \in CustomerIds, ch \in ChannelNames \cup {NULL}, a \in {NaT, 3, 12}}

InitChannel ==
  /\ customers_df \in Tables(ChannelRecs, MaxChannelRows)
  /\ usage_df = <<>>
  /\ pc = "loaded"
  /\ args = <<>>
  /\ NoOutputs

ShowTimeToActivation ==
  /\ pc = "get_customer_summary"
  /\ activation_insights' =
       [activation_data |-> ActivationData(customer_summary),
        avg_activation_time |-> AvgActivationTime(ActivationData(customer_summary))]
  /\ pc' = "show_time_to_activation"
  /\ UNCHANGED <<customers_df, usage_df, args, customer_summary, daily_usage,
                 user_activity, cohort_metrics, overall_metrics, weekly_metrics,
                 action_thresholds, segments, weekly_stickiness,
                 segmentation_vars, transition_vars, purchase_metrics,
                 channel_metrics, channel_trends, multi_channel_analysis,
                 dashboard_vars, previous>>

\* calculate_channel_trends

\* Series.dt.to_period('W'): the week (Monday to Sunday) of a date
\* (NaT stays NaT: a period without a start)
ToPeriodW(d) ==
  [freq |-> "W-SUN", start_time |-> IF d = NaT THEN NaT ELSE WeekStart(d)]

\* WithTrendWeeks that also moves signup_date a week back in the table
WithTrendWeeksShiftingDates(cs) ==
  [i \in 1..Len(cs) |->
     [signup_week |-> ToPeriodW(cs[i].signup_date),
      activation_week |-> ToPeriodW(cs[i].first_activation_date),
      signup_date |-> cs[i].signup_date - 7] @@ cs[i]]

\* the two columns the function writes into the table it is given
WithTrendWeeks(cs) ==
  [i \in 1..Len(cs) |->
     [signup_week |-> ToPeriodW(cs[i].signup_date),
      activation_week |-> ToPeriodW(cs[i].first_activation_date)] @@ cs[i]]

\* groupby([week, channel, product])['customerid'].nunique(), the week
\* given by its start
WeeklyCounts(cs, week_col) ==
  LET rows == {i \in 1..Len(cs) : /\ cs[i][week_col].start_time # NaT
                                   /\ cs[i].first_signedup_channel # NULL
                                   /\ cs[i].first_signedup_product # NULL}
      keys == SortKeys({<<cs[i][week_col].start_time,
                          ChannelRank(cs[i].first_signedup_channel),
                          ProductRank(cs[i].first_signedup_product)>> : i \in rows})
  IN [k \in 1..Len(keys) |->
        [week |-> keys[k][1],
         first_signedup_channel |-> ChannelOrder[keys[k][2]],
         first_signedup_product |-> ProductOrder[keys[k][3]],
         count |->
           Cardinality({cs[i].customerid :
                          i \in {j \in rows :
                                   /\ cs[j][week_col].start_time = keys[k][1]
                                   /\ ChannelRank(cs[j].first_signedup_channel) = keys[k][2]
                                   /\ ProductRank(cs[j].first_signedup_product) = keys[k][3]}})]]

\* the pair returned, computed on the table with the week columns
calculate_channel_trends(cs) ==
  [weekly_signups |-> WeeklyCounts(WithTrendWeeks(cs), "signup_week"),
   weekly_activations |->
     WeeklyCounts(SelectSeq(WithTrendWeeks(cs), LAMBDA r : r.activated),
                  "activation_week")]

\* the function, called once and then once more with the same table object
CalculateChannelTrends ==
  /\ pc \in {"get_customer_summary", "calculate_channel_trends"}
  /\ customer_summary' = WithTrendWeeks(customer_summary)
  /\ channel_trends' = calculate_channel_trends(customer_summary)
  /\ previous' = channel_trends
  /\ pc' = IF pc = "get_customer_summary" THEN "calculate_channel_trends"
           ELSE "calculate_channel_trends_again"
  /\ UNCHANGED <<customers_df, usage_df, args, daily_usage,
                 user_activity, cohort_metrics, overall_metrics, weekly_metrics,
                 action_thresholds, segments, weekly_stickiness,
                 segmentation_vars, transition_vars, purchase_metrics,
                 channel_metrics, multi_channel_analysis, activation_insights,
                 dashboard_vars>>

\* groupby('first_signedup_channel') drops the rows whose channel is null and
\* returns the channels in ascending order
get_channel_overview_metrics(cs) ==
  LET ranks == SortedSeq({ChannelRank(cs[i].first_signedup_channel) :
                            i \in {j \in 1..Len(cs) :
                                     cs[j].first_signedup_channel # NULL}})
  IN [k \in 1..Len(ranks) |->
        LET g == SelectSeq(cs, LAMBDA r :
                                 r.first_signedup_channel = ChannelOrder[ranks[k]])
            total_signups == Cardinality(Range(Column(g, "customerid")))
            total_activated == Len(SelectSeq(g, LAMBDA r : r.activated))
        IN [first_signedup_channel |-> ChannelOrder[ranks[k]],
            total_signups |-> total_signups,
            total_activated |-> total_activated,
            activation_rate |-> Ratio(total_activated, total_signups)]]

GetChannelOverviewMetrics ==
  /\ pc = "get_customer_summary"
  /\ channel_metrics' = get_channel_overview_metrics(customer_summary)
  /\ pc' = "get_channel_overview_metrics"
  /\ UNCHANGED <<customers_df, usage_df, args, customer_summary, daily_usage,
                 user_activity, cohort_metrics, overall_metrics, weekly_metrics,
                 action_thresholds, segments, weekly_stickiness,
                 segmentation_vars, transition_vars, purchase_metrics,
                 channel_trends, multi_channel_analysis, activation_insights,
                 dashboard_vars, previous>>

NextChannel ==
  \/ GetCustomerSummary
  \/ GetChannelOverviewMetrics
  \/ ShowTimeToActivation
  \/ CalculateChannelTrends

SpecChannel == InitChannel /\ [][NextChannel]_vars

----------------------------------------------------------------------------
(* A component run twice in a row *)

\* usage of three customers on one day, light or medium, and a second day
RerunEvents ==
  {UsageEvent(c, 1, p, 1, n) : c \in ClusterCustomerIds, p \in {"TurboTax"}, n \in {1, 2}}
  \cup {UsageEvent(1, 11, "Mint", 1, 1)}

InitRerun ==
  \/ InitChannel
  \/ InitUsage(RerunEvents, MaxRerunRows)

FeatureMatrix(um) == [i \in 1..Len(um) |-> FeatureRow(um[i])]

\* cluster_users, remembering what it was given and what it returned
ClusterUsersFirst ==
  /\ pc = "prepare_user_metrics"
  /\ Len(user_metrics) >= N_CLUSTERS
  /\ \E km \in KMeansFits(FeatureMatrix(user_metrics)) :
       /\ kmeans' = km
       /\ user_segments' = cluster_users(user_metrics, km)
       /\ user_metrics' = user_segments'
       /\ previous' = [X |-> FeatureMatrix(user_metrics)]
  /\ pc' = "cluster_users"
  /\ UNCHANGED <<customers_df, usage_df, args, customer_summary, daily_usage,
                 user_activity, cohort_metrics, overall_metrics, weekly_metrics,
                 action_thresholds, segments, weekly_stickiness, total_weeks,
                 error, transition_vars, purchase_metrics,
                 channel_vars, dashboard_vars>>

\* cluster_users called again with the frame it returned: random_state is
\* fixed, so the same feature matrix gives the same fit
ClusterUsersAgain ==
  /\ pc = "cluster_users"
  /\ \E km \in IF FeatureMatrix(user_metrics) = previous.X THEN {kmeans}
               ELSE KMeansFits(FeatureMatrix(user_metrics)) :
       /\ kmeans' = km
       /\ user_segments' = cluster_users(user_metrics, km)
       /\ user_metrics' = user_segments'
       /\ previous' = [X |-> previous.X, user_segments |-> user_segments]
  /\ pc' = "cluster_users_again"
  /\ UNCHANGED <<customers_df, usage_df, args, customer_summary, daily_usage,
                 user_activity, cohort_metrics, overall_metrics, weekly_metrics,
                 action_thresholds, segments, weekly_stickiness, total_weeks,
                 error, transition_vars, purchase_metrics,
                 channel_vars, dashboard_vars>>

AnalyzeProductTransitionsAgain ==
  /\ pc = "analyze_product_transitions"
  /\ LET df == SelectSeq(usage_df, LAMBDA r : r.product_name # NULL)
     IN /\ transition_locals' = TransitionLocals(df)
        /\ transition_data' = analyze_product_transitions(df, transition_locals')
  /\ previous' = transition_data
  /\ pc' = "analyze_product_transitions_again"
  /\ UNCHANGED <<customers_df, usage_df, args, customer_summary, daily_usage,
                 user_activity, cohort_metrics, overall_metrics, weekly_metrics,
                 action_thresholds, segments, weekly_stickiness,
                 segmentation_vars, purchase_metrics,
                 channel_vars, dashboard_vars>>

NextRerun ==
  \/ GetCustomerSummary
  \/ CalculateChannelTrends
  \/ PrepareUserMetrics
  \/ ClusterUsersFirst
  \/ ClusterUsersAgain
  \/ AnalyzeProductTransitions
  \/ AnalyzeProductTransitionsAgain

SpecRerun == InitRerun /\ [][NextRerun]_vars

(***************************************************************************)
(* main: the date range filter, the North Star KPIs and the purchase funnel *)
(***************************************************************************)

MaxDashboardRows == 3
MaxDashboardCustRows == 1

\* Usage.csv: two customers on 2024-02-01 and 2024-03-01; the sidebar offers
\* every day between the first and the last event, 2024-02-09 among them
DashboardEvents ==
  {UsageEvent(c, d, "Mint", 1, 1) : c \in CustomerIds, d \in {1, 30}}

DashboardDates == {1, 9, 30}

\* Customers.csv: customer 1, activated, with or without a purchase
DashboardCustomerRecs ==
  {[customerid |-> 1, signup_date |-> 1, product_name |-> "Mint", channel |-> "web",
    first_activation_date |-> 5, first_purchase_date |-> p, cancel_date |-> NaT] :
     p \in {NaT, 8}}

\* the value of st.sidebar.date_input: a (start, end) pair between the first
\* and the last event date of the loaded usage
DateRanges(df) ==
  LET dates == Range(Column(df, "event_date"))
  IN {r \in DashboardDates \X DashboardDates :
        /\ Min(dates) <= r[1]
        /\ r[1] <= r[2]
        /\ r[2] <= Max(dates)}

FilterByDateRange(df, range) ==
  SelectSeq(df, LAMBDA r : r.event_date >= range[1] /\ r.event_date <= range[2])

WithCancelWeek(cs) ==
  [i \in 1..Len(cs) |-> cs[i] @@ [cancel_week |-> ToPeriodW(cs[i].cancel_date)]]

WithWeek(du) ==
  [i \in 1..Len(du) |-> du[i] @@ [week |-> ToPeriodW(du[i].event_date)]]

AvgProductsPerUser(transitions) ==
  Ratio(SumSeq([k \in 1..Len(transitions.products_per_customer) |->
                  transitions.products_per_customer[k].num_products
                    * transitions.products_per_customer[k].num_customers]),
        transitions.total_customers)

\* the frame of segments has no column when no product has an action, and
\* reading its power_users_pct raises
calculate_north_star_kpis(customers, usage) ==
  LET cs == WithCancelWeek(get_customer_summary(customers))
      du == WithWeek(get_daily_usage_summary(usage))
      segments_df == analyze_user_segments(usage, get_action_thresholds(usage))
      products_df == SelectSeq(usage, LAMBDA r : r.product_name # NULL)
      transitions == analyze_product_transitions(products_df,
                                                 TransitionLocals(products_df))
      ua == ConsolidatedUserActivity(du, DEFAULT_CHURN_THRESHOLD_DAYS)
  IN IF segments_df = <<>>
     THEN [raised |-> <<"KeyError", "power_users_pct">>,
           kpis |-> <<>>, customer_summary |-> <<>>, daily_usage |-> <<>>]
     ELSE [raised |-> <<>>,
           kpis |->
             [total_unique_customers |->
                Cardinality(Range(Column(cs, "customerid"))
                              \cup Range(Column(du, "customerid"))),
              active_users_current |-> Cardinality(Range(Column(du, "customerid"))),
              avg_products_per_user |-> AvgProductsPerUser(transitions),
              transition_data |-> transitions,
              overall_churn |-> OverallMetrics(ua),
              weekly_churn |-> CohortMetrics(ua)],
           customer_summary |-> cs,
           daily_usage |-> du]

InitDashboard ==
  /\ customers_df \in Tables(DashboardCustomerRecs, MaxDashboardCustRows)
  /\ usage_csv \in Tables(DashboardEvents, MaxDashboardRows)
  /\ usage_df = usage_csv
  /\ pc = "loaded"
  /\ args = <<>>
  /\ NoResults

\* one run of the script: the sidebar's range filters the loaded usage, the
\* KPIs are computed from the filtered frame, and the funnel section reads
\* Customers.csv and Usage.csv again
Main ==
  /\ pc \in {"loaded", "main", "main_raised"}
  /\ \E range \in IF usage_csv = <<>> THEN {<<>>} ELSE DateRanges(usage_csv) :
       /\ date_range' = range
       /\ usage_df' = IF usage_csv = <<>> THEN usage_csv
                      ELSE FilterByDateRange(usage_csv, range)
  /\ LET r == calculate_north_star_kpis(customers_df, usage_df')
     IN /\ error' = r.raised
        /\ kpis' = r.kpis
        /\ customer_summary' = r.customer_summary
        /\ daily_usage' = r.daily_usage
        /\ purchase_metrics' = IF r.raised = <<>>
                               THEN calculate_purchase_metrics(customers_df, usage_csv)
                               ELSE <<>>
        /\ pc' = IF r.raised = <<>> THEN "main" ELSE "main_raised"
  /\ UNCHANGED <<customers_df, usage_csv, args, user_activity, cohort_metrics,
                 overall_metrics, weekly_metrics, action_thresholds, segments,
                 weekly_stickiness, user_metrics, total_weeks, kmeans,
                 user_segments, transition_vars, channel_vars, previous>>

NextDashboard == Main

SpecDashboard == InitDashboard /\ [][NextDashboard]_vars

----------------------------------------------------------------------------
(* Claims on get_customer_summary *)

CustomerDone == pc = "get_customer_summary"

InputCustomerIds == {customers_df[i].customerid : i \in 1..Len(customers_df)}
RecordsOf(c) == {i \in 1..Len(customers_df) : customers_df[i].customerid = c}
SummaryRows == 1..Len(customer_summary)

\* C1: get_customer_summary returns exactly one row per distinct customerid of
\* the input (none missing, none duplicated, none invented), and the row's
\* signup_date is the minimum signup_date over that customer's records.
C1_OneRowPerCustomerMinSignup ==
  CustomerDone =>
    /\ \A c \in InputCustomerIds :
         Cardinality({k \in SummaryRows : customer_summary[k].customerid = c}) = 1
    /\ \A k \in SummaryRows :
         LET c == customer_summary[k].customerid
         IN /\ c \in InputCustomerIds
            /\ \A i \in RecordsOf(c) :
                  customer_summary[k].signup_date <= customers_df[i].signup_date
            /\ \E i \in RecordsOf(c) :
                  customer_summary[k].signup_date = customers_df[i].signup_date

\* both customers present, one of them with records of different signup dates
\* whose later record comes first
C1_Witness ==
  /\ CustomerDone
  /\ InputCustomerIds = CustomerIds
  /\ \E i, j \in RecordsOf(1) :
       i < j /\ customers_df[i].signup_date > customers_df[j].signup_date
  /\ Len(customer_summary) = 2

\* value of column col in the first record of customer c where it is not null
FirstNonNull(c, col) ==
  customers_df[Min({i \in RecordsOf(c) : customers_df[i][col] # NULL})][col]

HasNonNull(c, col) == \E i \in RecordsOf(c) : customers_df[i][col] # NULL

\* the claim for one attribution column: the value comes from the first record
\* holding the earliest signup_date, or, when that one has none, it is the
\* first non-null value of the customer in row order
FirstSignedUpFrom(k, col, out) ==
  LET c == customer_summary[k].customerid
      earliest == {i \in RecordsOf(c) :
                     \A j \in RecordsOf(c) :
                        customers_df[i].signup_date <= customers_df[j].signup_date}
      e == customers_df[Min(earliest)]
  IN /\ e[col] # NULL => customer_summary[k][out] = e[col]
     /\ (e[col] = NULL /\ HasNonNull(c, col)) =>
           /\ customer_summary[k][out] = FirstNonNull(c, col)
           /\ customer_summary[k][out] = customer_summary[k][col][1]

\* C2: first_signedup_product / first_signedup_channel is the product /
\* channel of the customer's earliest signup record, falling back to the first
\* element of the customer's product / channel list when that record has none.
C2_FirstSignedUpProductChannel ==
  CustomerDone =>
    \A k \in SummaryRows :
      /\ FirstSignedUpFrom(k, "product_name", "first_signedup_product")
      /\ FirstSignedUpFrom(k, "channel", "first_signedup_channel")

\* the fallback case with a two-element list: the earliest record of customer 1
\* has no product, two later records bring two different products
C2_Witness ==
  /\ CustomerDone
  /\ \E k \in SummaryRows :
       /\ customer_summary[k].customerid = 1
       /\ customer_summary[k].num_products = 2
       /\ customers_df[IdxMin(customers_df, 1)].product_name = NULL
       /\ customer_summary[k].first_signedup_product # NULL

\* C3: the flags follow the presence of the dates, the counts are the numbers
\* of distinct non-null products / channels, and the cross-product and
\* multi-channel flags are count > 1.
C3_FlagsAndCounts ==
  CustomerDone =>
    \A k \in SummaryRows :
      LET r == customer_summary[k]
          recs == RecordsOf(r.customerid)
      IN /\ r.activated = (\E i \in recs : customers_df[i].first_activation_date # NaT)
         /\ r.purchased = (\E i \in recs : customers_df[i].first_purchase_date # NaT)
         /\ r.cancelled = (\E i \in recs : customers_df[i].cancel_date # NaT)
         /\ r.num_products =
              Cardinality({customers_df[i].product_name : i \in recs} \ {NULL})
         /\ r.num_channels =
              Cardinality({customers_df[i].channel : i \in recs} \ {NULL})
         /\ r.is_cross_product = (r.num_products > 1)
         /\ r.is_multi_channel = (r.num_channels > 1)

\* a customer activated but neither purchased nor cancelled, with two products
C3_Witness ==
  /\ CustomerDone
  /\ \E k \in SummaryRows :
       /\ customer_summary[k].activated
       /\ ~customer_summary[k].purchased
       /\ ~customer_summary[k].cancelled
       /\ customer_summary[k].is_cross_product
       /\ customer_summary[k].num_channels = 2

----------------------------------------------------------------------------
(* Claims on get_daily_usage_summary *)

DailyDone == pc = "get_daily_usage_summary"

UsageRows == 1..Len(usage_df)
DailyRows == 1..Len(daily_usage)
InputUsageKeys ==
  {<<usage_df[i].customerid, usage_df[i].event_date, usage_df[i].product_name>> :
      i \in UsageRows}
EventsOfKey(key) ==
  {i \in UsageRows :
     <<usage_df[i].customerid, usage_df[i].event_date, usage_df[i].product_name>> = key}
DailyKeyOf(k) ==
  <<daily_usage[k].customerid, daily_usage[k].event_date, daily_usage[k].product_name>>

RECURSIVE SumOver(_, _)
SumOver(S, f) ==
  IF S = {} THEN 0
  ELSE LET x == CHOOSE y \in S : TRUE IN f[x] + SumOver(S \ {x}, f)

\* C4: get_daily_usage_summary returns exactly one row per distinct
\* (customerid, event_date, product_name) key of the input, with total_usage
\* the sum of usage_count and actions_taken the number of distinct
\* action_type_id over the events of that key.
C4_OneRowPerKey ==
  DailyDone =>
    /\ \A k \in DailyRows : DailyKeyOf(k) \in InputUsageKeys
    /\ \A key \in InputUsageKeys :
         /\ Cardinality({k \in DailyRows : DailyKeyOf(k) = key}) = 1
         /\ \A k \in DailyRows :
              DailyKeyOf(k) = key =>
                /\ daily_usage[k].total_usage =
                     SumOver(EventsOfKey(key), [i \in UsageRows |-> usage_df[i].usage_count])
                /\ daily_usage[k].actions_taken =
                     Cardinality({usage_df[i].action_type_id : i \in EventsOfKey(key)})

\* C5: get_daily_usage_summary filters nothing: the total_usage of the output
\* sums to the usage_count of the input, and every customer of the input
\* appears in the output.
C5_NothingFiltered ==
  DailyDone =>
    /\ SumOver(DailyRows, [k \in DailyRows |-> daily_usage[k].total_usage]) =
         SumOver(UsageRows, [i \in UsageRows |-> usage_df[i].usage_count])
    /\ {usage_df[i].customerid : i \in UsageRows} =
         {daily_usage[k].customerid : k \in DailyRows}

----------------------------------------------------------------------------
(* Claims on the churn computations *)

ProductChurnDone == pc = "calculate_churn_metrics"
ConsolidatedChurnDone == pc = "calculate_consolidated_churn_metrics"
ActivityRows == 1..Len(user_activity)

\* the events the computation is about: those of the product, or all
FilteredEvents ==
  IF ProductChurnDone
  THEN {i \in UsageRows : usage_df[i].product_name = args.product}
  ELSE UsageRows
LastEventOf(c) ==
  Max({usage_df[i].event_date : i \in {j \in FilteredEvents : usage_df[j].customerid = c}})
TableMaxDate ==
  IF UsageRows = {} THEN NaT ELSE Max({usage_df[i].event_date : i \in UsageRows})
FilteredMaxDate ==
  IF FilteredEvents = {} THEN NaT
  ELSE Max({usage_df[i].event_date : i \in FilteredEvents})

C7_MeasuredFromProductMax ==
  ProductChurnDone =>
    \A k \in ActivityRows :
      LET r == user_activity[k]
      IN /\ r.days_since_last = FilteredMaxDate - LastEventOf(r.customerid)
         /\ LastEventOf(r.customerid) = FilteredMaxDate => r.days_since_last = 0

\* C7 amended: days_since_last is measured from the maximum event_date of the
\* whole usage table passed in (all products, null product included); the
\* customer with the latest event of the product has days_since_last = table
\* maximum - product maximum, which is 0 exactly when the product has an event
\* on the table's latest date.
C7_MeasuredFromTableMax ==
  ProductChurnDone =>
    /\ {user_activity[k].customerid : k \in ActivityRows} =
         {usage_df[i].customerid : i \in FilteredEvents}
    /\ \A k \in ActivityRows :
         LET r == user_activity[k]
         IN /\ r.days_since_last = TableMaxDate - LastEventOf(r.customerid)
            /\ r.days_since_last >= 0
            /\ LastEventOf(r.customerid) = FilteredMaxDate =>
                 /\ r.days_since_last = TableMaxDate - FilteredMaxDate
                 /\ (r.days_since_last = 0) = (FilteredMaxDate = TableMaxDate)

\* the product's latest event is older than the table's latest event
C7_Witness ==
  /\ ProductChurnDone
  /\ \E k \in ActivityRows :
       /\ user_activity[k].event_date_last = FilteredMaxDate
       /\ FilteredMaxDate < TableMaxDate
       /\ user_activity[k].days_since_last > 0

CohortRowOk(r) ==
  /\ r.cohort_size >= 1
  /\ 0 <= r.churned_users
  /\ r.churned_users <= r.cohort_size
  /\ RatioEq(r.churn_rate, r.churned_users, r.cohort_size)

\* C8: every cohort row of calculate_churn_metrics and of the weekly series of
\* calculate_consolidated_churn_metrics has cohort_size >= 1,
\* 0 <= churned_users <= cohort_size and churn_rate = churned_users / cohort_size.
C8_CohortRows ==
  /\ ProductChurnDone => \A k \in 1..Len(cohort_metrics) : CohortRowOk(cohort_metrics[k])
  /\ ConsolidatedChurnDone => \A k \in 1..Len(weekly_metrics) : CohortRowOk(weekly_metrics[k])

\* two cohorts in the product table, one all churned, one not churned
C8_Witness ==
  /\ ProductChurnDone
  /\ \E k, l \in 1..Len(cohort_metrics) :
       /\ cohort_metrics[k].churned_users = cohort_metrics[k].cohort_size
       /\ cohort_metrics[l].churned_users = 0

\* C9: on a usage table with no customers calculate_consolidated_churn_metrics
\* completes with total_users = 0 and churn_rate = 0; with total_users > 0 the
\* overall churn_rate is churned_users / total_users.
C9_OverallChurnRateGuarded ==
  ConsolidatedChurnDone =>
    /\ overall_metrics.total_users =
         Cardinality({usage_df[i].customerid : i \in UsageRows})
    /\ overall_metrics.churned_users =
         Cardinality({k \in ActivityRows : user_activity[k].is_churned})
    /\ usage_df = <<>> =>
         /\ overall_metrics.total_users = 0
         /\ overall_metrics.churn_rate.num = 0
         /\ overall_metrics.churn_rate.den # 0
    /\ overall_metrics.total_users > 0 =>
         RatioEq(overall_metrics.churn_rate,
                 overall_metrics.churned_users, overall_metrics.total_users)

\* the function applied to the empty usage table
C9_Witness ==
  /\ ConsolidatedChurnDone
  /\ usage_df = <<>>
  /\ overall_metrics.total_users = 0

----------------------------------------------------------------------------
(* Claims on analyze_user_segments *)

SegmentsDone == pc = "analyze_user_segments"

EventsOfAction(row) ==
  {i \in UsageRows : /\ usage_df[i].product_name = row.product_name
                     /\ usage_df[i].action_type_id = row.action_type_id}
UsersOfAction(row) == {usage_df[i].customerid : i \in EventsOfAction(row)}
ActiveDays(row, u) ==
  Cardinality({usage_df[i].event_date :
                 i \in {j \in EventsOfAction(row) : usage_df[j].customerid = u}})
TotalActions(row, u) ==
  SumOver({j \in EventsOfAction(row) : usage_df[j].customerid = u},
          [i \in UsageRows |-> usage_df[i].usage_count])
MeetsDays(row, u) == ActiveDays(row, u) >= row.day_threshold
MeetsActions(row, u) ==
  TotalActions(row, u) * row.action_threshold.den >= row.action_threshold.num
UsersMeetingNeither(row) ==
  {u \in UsersOfAction(row) : ~MeetsDays(row, u) /\ ~MeetsActions(row, u)}

\* C10: in every row of analyze_user_segments the users of the (product,
\* action) split into power / frequent-light / intensive-irregular / other,
\* so the three counts sum to at most total_users, the three percentages sum
\* to at most 1, and the remainder is >= 0 and is the share of users meeting
\* neither threshold.
C10_SegmentsPartitionUsers ==
  SegmentsDone =>
    \A k \in 1..Len(segments) :
      LET r == segments[k]
          classified == r.power_users + r.frequent_light_users
                          + r.intensive_irregular_users
      IN /\ r.total_users = Cardinality(UsersOfAction(r))
         /\ r.total_users >= 1
         /\ r.power_users =
              Cardinality({u \in UsersOfAction(r) : MeetsDays(r, u) /\ MeetsActions(r, u)})
         /\ r.frequent_light_users =
              Cardinality({u \in UsersOfAction(r) : MeetsDays(r, u) /\ ~MeetsActions(r, u)})
         /\ r.intensive_irregular_users =
              Cardinality({u \in UsersOfAction(r) : ~MeetsDays(r, u) /\ MeetsActions(r, u)})
         /\ classified <= r.total_users
         /\ RatioEq(r.power_users_pct, r.power_users, r.total_users)
         /\ RatioEq(r.frequent_light_pct, r.frequent_light_users, r.total_users)
         /\ RatioEq(r.intensive_irregular_pct, r.intensive_irregular_users, r.total_users)
         /\ r.power_users_pct.num + r.frequent_light_pct.num
              + r.intensive_irregular_pct.num <= r.power_users_pct.den
         /\ r.total_users - classified = Cardinality(UsersMeetingNeither(r))

\* a row with a power user and a user meeting neither threshold
C10_Witness ==
  /\ SegmentsDone
  /\ \E k \in 1..Len(segments) :
       /\ segments[k].power_users = 1
       /\ segments[k].total_users = 2
       /\ Cardinality(UsersMeetingNeither(segments[k])) = 1

----------------------------------------------------------------------------
(* Claims on the stickiness configuration *)

\* the pct-th percentile of values, linear interpolation, as a ratio over 100
QuantilePct(values, pct) ==
  LET v == SortValues(values)
      pos == pct * (Len(v) - 1)
      lo == (pos \div 100) + 1
      frac == pos % 100
  IN IF frac = 0 THEN Ratio(100 * v[lo], 100)
     ELSE Ratio(100 * v[lo] + frac * (v[lo + 1] - v[lo]), 100)

\* per-user totals of the (product, action) of a threshold or segment row,
\* over the events of the set E of usage rows
UserTotalsIn(E, row) ==
  LET ev == {i \in E : /\ usage_df[i].product_name = row.product_name
                        /\ usage_df[i].action_type_id = row.action_type_id}
      users == SortedSeq({usage_df[i].customerid : i \in ev})
  IN [k \in 1..Len(users) |->
        SumOver({i \in ev : usage_df[i].customerid = users[k]},
                [i \in UsageRows |-> usage_df[i].usage_count])]

ThresholdIsPercentile(row, E, pct) ==
  LET q == QuantilePct(UserTotalsIn(E, row), pct)
  IN RatioEq(row.action_threshold, q.num, q.den)

\* C11: the action threshold applied by threshold segmentation is the
\* configured action-count percentile of the per-user totals: 70 by default,
\* and the selected one when another percentile in 50..90 is configured.
C11_ConfiguredPercentileUsed ==
  SegmentsDone =>
    /\ \A k \in 1..Len(action_thresholds) :
         ThresholdIsPercentile(action_thresholds[k], UsageRows, args.action_percentile)
    /\ \A k \in 1..Len(segments) :
         ThresholdIsPercentile(segments[k], UsageRows, args.action_percentile)

----------------------------------------------------------------------------
(* Claims on calculate_time_based_stickiness *)

WeeklyDone == pc = "calculate_time_based_stickiness"

EventsOfWeek(week) == {i \in UsageRows : WeekStart(usage_df[i].event_date) = week}
WeekEventsOfAction(row) ==
  {i \in EventsOfWeek(row.week) : /\ usage_df[i].product_name = row.product_name
                                  /\ usage_df[i].action_type_id = row.action_type_id}
WeekUsers(row) == {usage_df[i].customerid : i \in WeekEventsOfAction(row)}
WeekActiveDays(row, u) ==
  Cardinality({usage_df[i].event_date :
                 i \in {j \in WeekEventsOfAction(row) : usage_df[j].customerid = u}})
WeekTotalActions(row, u) ==
  SumOver({j \in WeekEventsOfAction(row) : usage_df[j].customerid = u},
          [i \in UsageRows |-> usage_df[i].usage_count])
WeekPowerUsers(row) ==
  {u \in WeekUsers(row) :
     /\ WeekActiveDays(row, u) >= row.day_threshold
     /\ WeekTotalActions(row, u) * row.action_threshold.den >= row.action_threshold.num}
RowsOfWeek(week) == SelectSeq(weekly_stickiness, LAMBDA r : r.week = week)

\* C12: the rows of each calendar week are computed from that week's events
\* only: the week's action_threshold is the 70th percentile of that week's
\* per-user totals, its counts are over that week's users, and the rows are
\* those obtained from the table reduced to that week.
C12_WeeksIndependent ==
  WeeklyDone =>
    /\ \A k \in 1..Len(weekly_stickiness) :
         LET r == weekly_stickiness[k]
         IN /\ WeekEventsOfAction(r) # {}
            /\ ThresholdIsPercentile(r, EventsOfWeek(r.week), 70)
            /\ r.total_users = Cardinality(WeekUsers(r))
            /\ r.power_users = Cardinality(WeekPowerUsers(r))
    /\ \A i \in UsageRows :
         LET week == WeekStart(usage_df[i].event_date)
         IN RowsOfWeek(week) =
              calculate_time_based_stickiness(WeekData(usage_df, week))

\* two weeks with rows, one of them with a threshold that is not the 70th
\* percentile of the whole table
C12_Witness ==
  /\ WeeklyDone
  /\ \E k, l \in 1..Len(weekly_stickiness) :
       /\ weekly_stickiness[k].week # weekly_stickiness[l].week
       /\ ~ThresholdIsPercentile(weekly_stickiness[k], UsageRows, 70)

----------------------------------------------------------------------------
(* Claims on cluster_users and prepare_user_metrics *)

ClusterDone == pc = "cluster_users"

CentreScore(c) ==
  RatioMul(kmeans.cluster_centers[c].days_per_week,
           kmeans.cluster_centers[c].actions_per_week)
ScoreLeq(c, d) == ~RatioLess(CentreScore(d), CentreScore(c))

\* C13: with 3 clusters and any cluster ids, users of the cluster whose
\* centroid has the lowest days_per_week x actions_per_week are 'Infrequent
\* Users', of the highest 'Power Users', of the remaining one 'Regular Users',
\* and every user has exactly one of the three labels, one label per cluster.
C13_LabelsFollowActivity ==
  ClusterDone =>
    /\ Len(user_segments) = Len(kmeans.labels)
    /\ \A i \in 1..Len(user_segments) :
         LET r == user_segments[i]
             others == ClusterIds \ {r.cluster}
         IN /\ r.cluster = kmeans.labels[i]
            /\ r.segment \in Range(SEGMENT_LABELS)
            /\ r.segment = "Infrequent Users" =>
                 \A d \in others : ScoreLeq(r.cluster, d)
            /\ r.segment = "Power Users" =>
                 \A d \in others : ScoreLeq(d, r.cluster)
            /\ r.segment = "Regular Users" =>
                 \E d, e \in others :
                   d # e /\ ScoreLeq(d, r.cluster) /\ ScoreLeq(r.cluster, e)
            /\ (\A d \in others : RatioLess(CentreScore(r.cluster), CentreScore(d)))
                 => r.segment = "Infrequent Users"
            /\ (\A d \in others : RatioLess(CentreScore(d), CentreScore(r.cluster)))
                 => r.segment = "Power Users"
    /\ \A i, j \in 1..Len(user_segments) :
         (user_segments[i].segment = user_segments[j].segment)
           <=> (user_segments[i].cluster = user_segments[j].cluster)

\* three clusters with distinct scores where cluster 0 is not the lowest, and
\* users with each of the three labels
C13_Witness ==
  /\ ClusterDone
  /\ RatioLess(CentreScore(2), CentreScore(1))
  /\ RatioLess(CentreScore(1), CentreScore(0))
  /\ {user_segments[i].segment : i \in 1..Len(user_segments)} = Range(SEGMENT_LABELS)

PrepareReturned == pc = "prepare_user_metrics"
PrepareRaised == pc = "prepare_user_metrics_raised"
RowsOfSelectedProduct ==
  {i \in UsageRows : usage_df[i].product_name # NULL
                       /\ usage_df[i].product_name = args.product}

\* C14: prepare_user_metrics for a product without usage rows (unknown or
\* null) raises one error whose message names the product and yields no
\* metrics table; for a product with at least one usage row it raises no
\* such error and returns a row for each of its customers.
C14_EmptyProductRaises ==
  (PrepareReturned \/ PrepareRaised) =>
    IF RowsOfSelectedProduct = {}
    THEN /\ PrepareRaised
         /\ Len(error) = 3
         /\ error[1] = "ValueError"
         /\ error[3] = args.product
         /\ user_metrics = <<>>
         /\ total_weeks = 0
    ELSE /\ PrepareReturned
         /\ error = <<>>
         /\ {user_metrics[k].customerid : k \in 1..Len(user_metrics)}
              = {usage_df[i].customerid : i \in RowsOfSelectedProduct}

\* the error is raised for an unknown product on a table that has rows
C14_Witness ==
  /\ PrepareRaised
  /\ args.product = "QuickBooks"
  /\ usage_df # <<>>

----------------------------------------------------------------------------
(* Claims on analyze_product_transitions *)

TransitionsDone == pc = "analyze_product_transitions"

NonNullRows == {i \in UsageRows : usage_df[i].product_name # NULL}
TransitionCustomers == {usage_df[i].customerid : i \in NonNullRows}
ProductsOf(c) ==
  {usage_df[i].product_name : i \in {j \in NonNullRows : usage_df[j].customerid = c}}
AllProducts == UNION {ProductsOf(c) : c \in TransitionCustomers}
FirstAdoption(c, p) ==
  Min({usage_df[i].event_date :
         i \in {j \in NonNullRows : /\ usage_df[j].customerid = c
                                     /\ usage_df[j].product_name = p}})
\* the input row on which customer c first uses product p
FirstAdoptionRow(c, p) ==
  Min({i \in NonNullRows : /\ usage_df[i].customerid = c
                            /\ usage_df[i].product_name = p
                            /\ usage_df[i].event_date = FirstAdoption(c, p)})
JourneyOf(c) ==
  transition_locals.customer_journeys[
    CHOOSE k \in 1..Len(SortedSeq(TransitionCustomers)) :
      SortedSeq(TransitionCustomers)[k] = c]
Position(journey, p) == CHOOSE i \in 1..Len(journey) : journey[i] = p
MatrixCells == transition_data.transition_matrix.cells
MatrixTotal == SumOver(DOMAIN MatrixCells, MatrixCells)
AdjacentPairs ==
  SumOver(TransitionCustomers,
          [c \in TransitionCustomers |-> Cardinality(ProductsOf(c)) - 1])

\* C15: the transition matrix is square over all distinct non-null products
\* of the usage table, its diagonal is zero, and its cells add up to the
\* number of adjacent journey pairs of all customers.
C15_MatrixSquareZeroDiagonalTotal ==
  TransitionsDone =>
    /\ Range(transition_data.transition_matrix.index) = AllProducts
    /\ Len(transition_data.transition_matrix.index) = Cardinality(AllProducts)
    /\ DOMAIN MatrixCells = AllProducts \X AllProducts
    /\ \A p \in AllProducts : MatrixCells[<<p, p>>] = 0
    /\ MatrixTotal = AdjacentPairs
    /\ Len(transition_locals.transition_times) = AdjacentPairs

\* a product without any transition is in the matrix, next to counted ones
C15_Witness ==
  /\ TransitionsDone
  /\ MatrixTotal >= 1
  /\ \E p \in AllProducts : \A q \in AllProducts :
       MatrixCells[<<p, q>>] = 0 /\ MatrixCells[<<q, p>>] = 0
  /\ \E i \in UsageRows : usage_df[i].product_name = NULL

ExpectedTransitions ==
  LET customers == SortedSeq(TransitionCustomers)
  IN Flatten([k \in 1..Len(customers) |->
                LET journey == transition_locals.customer_journeys[k]
                IN [i \in 1..(Len(journey) - 1) |->
                      [from_product |-> journey[i],
                       to_product |-> journey[i + 1],
                       days |-> FirstAdoption(customers[k], journey[i + 1])
                                  - FirstAdoption(customers[k], journey[i])]]])

\* C16: every recorded transition has days = first adoption of to_product -
\* first adoption of from_product, never negative and 0 exactly on a tie; a
\* customer adopting one product on day 1 and another on day 11 adds 1 to
\* the count of that pair, with days = 10.
C16_DaysBetweenFirstAdoptions ==
  TransitionsDone =>
    /\ transition_locals.transition_times = ExpectedTransitions
    /\ \A i \in 1..Len(transition_locals.transition_times) :
         transition_locals.transition_times[i].days >= 0
    /\ \A key \in DOMAIN MatrixCells :
         MatrixCells[key] =
           Cardinality({i \in 1..Len(ExpectedTransitions) :
                          TransitionKey(ExpectedTransitions[i]) = key})
    /\ \A c \in TransitionCustomers : \A p, q \in ProductsOf(c) :
         (ProductsOf(c) = {p, q} /\ FirstAdoption(c, p) = 1 /\ FirstAdoption(c, q) = 11)
           => /\ JourneyOf(c) = <<p, q>>
              /\ MatrixCells[<<p, q>>] >= 1
              /\ \E i \in 1..Len(transition_locals.transition_times) :
                   transition_locals.transition_times[i] =
                     [from_product |-> p, to_product |-> q, days |-> 10]

\* a transition of 10 days and a transition of 0 days
C16_Witness ==
  /\ TransitionsDone
  /\ \E i, j \in 1..Len(transition_locals.transition_times) :
       /\ transition_locals.transition_times[i].days = 10
       /\ transition_locals.transition_times[j].days = 0
  /\ \E i, j \in UsageRows :
       /\ i < j
       /\ usage_df[i].customerid = usage_df[j].customerid
       /\ usage_df[i].product_name = usage_df[j].product_name
       /\ usage_df[i].event_date > usage_df[j].event_date

TiedProducts(c) ==
  {pq \in ProductsOf(c) \X ProductsOf(c) :
     pq[1] # pq[2] /\ FirstAdoption(c, pq[1]) = FirstAdoption(c, pq[2])}

\* C17: two products of a customer with the same first-adoption date are in
\* the journey in the order in which their rows appear in the usage table.
C17_TiesFollowRowOrder ==
  TransitionsDone =>
    \A c \in TransitionCustomers : \A pq \in TiedProducts(c) :
      FirstAdoptionRow(c, pq[1]) < FirstAdoptionRow(c, pq[2])
        => Position(JourneyOf(c), pq[1]) < Position(JourneyOf(c), pq[2])

\* C17 (amended): two products of a customer with the same first-adoption
\* date are in the journey in the order of their names, whatever the order of
\* their rows in the usage table.
C17_TiesFollowProductName ==
  TransitionsDone =>
    \A c \in TransitionCustomers : \A pq \in TiedProducts(c) :
      ProductRank(pq[1]) < ProductRank(pq[2])
        => Position(JourneyOf(c), pq[1]) < Position(JourneyOf(c), pq[2])

\* a tie whose rows come in the reverse of the name order
C17_Witness ==
  /\ TransitionsDone
  /\ \E c \in TransitionCustomers : \E pq \in TiedProducts(c) :
       /\ ProductRank(pq[1]) < ProductRank(pq[2])
       /\ FirstAdoptionRow(c, pq[2]) < FirstAdoptionRow(c, pq[1])

----------------------------------------------------------------------------
(* Claims on calculate_purchase_metrics *)

FunnelDone == pc = "calculate_purchase_metrics"

CustomerRows == 1..Len(customers_df)
FunnelProducts == {customers_df[i].product_name : i \in CustomerRows} \ {NULL}
\* the customer records and usage rows of a group: a product, or "overall"
GroupRecords(g) ==
  {i \in CustomerRows : g = "overall" \/ customers_df[i].product_name = g}
GroupUsage(g) ==
  {i \in UsageRows : /\ usage_df[i].event_date # NaT
                      /\ (g = "overall" \/ usage_df[i].product_name = g)}
ActivatedIn(g) ==
  {customers_df[i].customerid :
     i \in {j \in GroupRecords(g) : customers_df[j].first_activation_date # NaT}}
PurchasedIn(g) ==
  {customers_df[i].customerid :
     i \in {j \in GroupRecords(g) : customers_df[j].first_purchase_date # NaT}}
UsedIn(g) == {usage_df[i].customerid : i \in GroupUsage(g)} \cap PurchasedIn(g)
HasBothDates(i) ==
  customers_df[i].first_activation_date # NaT /\ customers_df[i].first_purchase_date # NaT
DaysToPurchase(i) ==
  customers_df[i].first_purchase_date - customers_df[i].first_activation_date
MetricsOf(g) ==
  IF g = "overall" THEN purchase_metrics.overall
  ELSE purchase_metrics.by_product[
         CHOOSE k \in 1..Len(purchase_metrics.by_product) :
           purchase_metrics.by_product[k].product = g]
FunnelGroups == FunnelProducts \cup {"overall"}
ByProductComplete ==
  /\ Len(purchase_metrics.by_product) = Cardinality(FunnelProducts)
  /\ {purchase_metrics.by_product[k].product :
        k \in 1..Len(purchase_metrics.by_product)} = FunnelProducts

\* C18: overall and for every product, used <= purchased, purchase_rate is
\* purchased / activated or 0 when nobody is activated, usage_rate is
\* used / purchased or 0 when nobody purchased; the computation always
\* yields a result.
C18_RatesGuarded ==
  FunnelDone =>
    /\ ByProductComplete
    /\ \A g \in FunnelGroups :
         LET m == MetricsOf(g)
         IN /\ m.used = Cardinality(UsedIn(g))
            /\ m.used <= m.purchased
            /\ IF m.activated = 0 THEN m.purchase_rate = Ratio(0, 1)
               ELSE RatioEq(m.purchase_rate, m.purchased, m.activated)
            /\ IF m.purchased = 0 THEN m.usage_rate = Ratio(0, 1)
               ELSE RatioEq(m.usage_rate, m.used, m.purchased)

\* a product nobody activated, a group nobody purchased in, and fewer users
\* than purchasers overall although a non-purchaser has usage
C18_Witness ==
  /\ FunnelDone
  /\ \E g \in FunnelProducts : MetricsOf(g).activated = 0 /\ MetricsOf(g).purchased = 1
  /\ \E g \in FunnelProducts : MetricsOf(g).purchased = 0
  /\ \E i \in UsageRows :
       usage_df[i].event_date # NaT /\ usage_df[i].customerid \notin PurchasedIn("overall")

\* C19: purchased is the number of distinct customers with a record that has
\* a purchase date, with or without an activation date; purchased > activated
\* is a result like any other and occurs only if some customer has a purchase
\* record but no record with an activation date.
C19_PurchasedRegardlessOfActivation ==
  FunnelDone =>
    \A g \in FunnelGroups :
      LET m == MetricsOf(g)
      IN /\ m.purchased = Cardinality(PurchasedIn(g))
         /\ m.activated = Cardinality(ActivatedIn(g))
         /\ m.purchased > m.activated => PurchasedIn(g) \ ActivatedIn(g) # {}

\* more purchasers than activated customers, and a purchase rate above 1
C19_Witness ==
  /\ FunnelDone
  /\ purchase_metrics.overall.purchased = 2
  /\ purchase_metrics.overall.activated = 1
  /\ RatioEq(purchase_metrics.overall.purchase_rate, 2, 1)

NonNegativeRecords(g) ==
  {i \in GroupRecords(g) : HasBothDates(i) /\ DaysToPurchase(i) >= 0}

\* C20: overall and for every product the average time_to_purchase is over
\* the records with time_to_purchase >= 0 only, and negative_time_cases is
\* the number of distinct customers with a record whose purchase date is
\* earlier than its activation date.
C20_NegativeTimesApart ==
  FunnelDone =>
    /\ \A g \in FunnelGroups :
         LET avg == MetricsOf(g).avg_time_to_purchase
         IN /\ avg.den = Cardinality(NonNegativeRecords(g))
            /\ avg.num = SumOver(NonNegativeRecords(g),
                                 [i \in CustomerRows |-> DaysToPurchase(i)])
    /\ purchase_metrics.overall.negative_time_cases =
         Cardinality({customers_df[i].customerid :
                        i \in {j \in CustomerRows :
                                 /\ HasBothDates(j)
                                 /\ customers_df[j].first_purchase_date
                                      < customers_df[j].first_activation_date}})

\* a purchase before activation next to a purchase after activation
C20_Witness ==
  /\ FunnelDone
  /\ purchase_metrics.overall.negative_time_cases = 1
  /\ RatioEq(purchase_metrics.overall.avg_time_to_purchase, 3, 1)

----------------------------------------------------------------------------
(* Claims on the channel analytics *)

MultiChannelReturned == pc = "analyze_multi_channel_distribution"
MultiChannelRaised == pc = "analyze_multi_channel_distribution_raised"

\* C21: a ratio whose denominator is 0 is 0 and nothing is raised; for a
\* customer summary without customers analyze_multi_channel_distribution
\* returns multi_channel_pct = 0.
C21_ZeroDenominatorGivesZero ==
  ((MultiChannelReturned \/ MultiChannelRaised) /\ customer_summary = <<>>) =>
    /\ MultiChannelReturned
    /\ error = <<>>
    /\ multi_channel_analysis.multi_channel_pct = Ratio(0, 1)

TimeToActivationDone == pc = "show_time_to_activation"

SummaryIndex == 1..Len(customer_summary)
DaysToActivation(i) ==
  customer_summary[i].first_activation_date - customer_summary[i].signup_date
NegativeActivationCases ==
  {i \in SummaryIndex : /\ customer_summary[i].first_activation_date # NaT
                         /\ customer_summary[i].first_activation_date
                              < customer_summary[i].signup_date}
ValidActivationsOf(ch) ==
  {i \in SummaryIndex : /\ customer_summary[i].first_activation_date # NaT
                         /\ customer_summary[i].first_signedup_channel = ch
                         /\ DaysToActivation(i) >= 0}

\* the per-channel mean is over the customers activated on or after signup
NegativesExcludedFromMean ==
  \A k \in 1..Len(activation_insights.avg_activation_time) :
    LET row == activation_insights.avg_activation_time[k]
        valid == ValidActivationsOf(row.first_signedup_channel)
    IN /\ valid # {}
       /\ row.mean_days =
            Round1(Ratio(SumOver(valid, [i \in SummaryIndex |-> DaysToActivation(i)]),
                         Cardinality(valid)))

\* C22: customers activated before their signup are left out of the
\* per-channel mean and median of time to activation, and their number is
\* reported as a metric of its own.
C22_NegativeActivationsCounted ==
  TimeToActivationDone =>
    /\ NegativesExcludedFromMean
    /\ "negative_time_cases" \in DOMAIN activation_insights
    /\ activation_insights.negative_time_cases = Cardinality(NegativeActivationCases)

\* C23: a metrics function leaves the table passed to it as it was: a call
\* of calculate_channel_trends(customer_summary) adds or changes no column
\* of customer_summary.
C23_ArgumentsUnchanged ==
  [][pc' \in {"calculate_channel_trends", "calculate_channel_trends_again"}
       => customer_summary' = customer_summary]_vars

----------------------------------------------------------------------------
(* Claims on repeated runs *)

DashboardDone == pc = "main"

InRange(d) == date_range[1] <= d /\ d <= date_range[2]

EventsInRange == SelectSeq(usage_csv, LAMBDA u : InRange(u.event_date))

PurchasersUsingInRange ==
  {customers_df[i].customerid :
     i \in {j \in 1..Len(customers_df) :
              /\ customers_df[j].first_purchase_date # NaT
              /\ \E k \in 1..Len(EventsInRange) :
                    EventsInRange[k].customerid = customers_df[j].customerid}}

\* C25: after the date range is set, every metric is computed from the usage
\* events inside the range only: the daily usage, the active users, the churn
\* totals and reference date, and the purchase funnel's count of purchasers
\* who used the product
C25_MetricsFollowDateRange ==
  DashboardDone =>
    /\ usage_df = EventsInRange
    /\ daily_usage = WithWeek(get_daily_usage_summary(EventsInRange))
    /\ kpis.active_users_current
         = Cardinality(Range(Column(EventsInRange, "customerid")))
    /\ kpis.overall_churn
         = OverallMetrics(ConsolidatedUserActivity(
                            WithWeek(get_daily_usage_summary(EventsInRange)),
                            DEFAULT_CHURN_THRESHOLD_DAYS))
    /\ purchase_metrics.overall.used = Cardinality(PurchasersUsingInRange)

(***************************************************************************)
(* Claims on get_channel_overview_metrics *)
(***************************************************************************)

ChannelOverviewDone == pc = "get_channel_overview_metrics"

CustomersOfChannel(ch) ==
  {customer_summary[i].customerid :
     i \in {j \in 1..Len(customer_summary) :
              customer_summary[j].first_signedup_channel = ch}}

ActivatedOfChannel(ch) ==
  {customer_summary[i].customerid :
     i \in {j \in 1..Len(customer_summary) :
              /\ customer_summary[j].first_signedup_channel = ch
              /\ customer_summary[j].activated}}

\* C26: each row of the channel overview is one first_signedup_channel with
\* total_signups its distinct customers, total_activated those of them that
\* are activated, 0 <= total_activated <= total_signups and activation_rate
\* their quotient; total_signups summed over the rows is the number of
\* customers in the summary
C26_ChannelOverviewCoversCustomers ==
  ChannelOverviewDone =>
    /\ \A i, j \in 1..Len(channel_metrics) :
         channel_metrics[i].first_signedup_channel
           = channel_metrics[j].first_signedup_channel => i = j
    /\ \A k \in 1..Len(channel_metrics) :
         LET row == channel_metrics[k]
         IN /\ row.total_signups
                 = Cardinality(CustomersOfChannel(row.first_signedup_channel))
            /\ row.total_activated
                 = Cardinality(ActivatedOfChannel(row.first_signedup_channel))
            /\ 0 <= row.total_activated
            /\ row.total_activated <= row.total_signups
            /\ RatioEq(row.activation_rate, row.total_activated, row.total_signups)
    /\ SumSeq(Column(channel_metrics, "total_signups")) = Len(customer_summary)

(***************************************************************************)
(* Claims on the channel combinations *)
(***************************************************************************)

ChannelCombinations == multi_channel_analysis.channel_combinations

\* the channel names a combination key is made of
NamesOf(combination) == Range(combination) \ {" + "}

CustomersWithChannels(names) ==
  {customer_summary[i].customerid :
     i \in {j \in 1..Len(customer_summary) :
              Range(customer_summary[j].channel) = names}}

C28_FirstSignupInList ==
  pc = "get_customer_summary" =>
    \A k \in 1..Len(customer_summary) :
      LET row == customer_summary[k]
      IN /\ \/ row.first_signedup_product \in Range(row.product_name)
            \/ /\ row.first_signedup_product = NULL
               /\ row.product_name = <<>>
               /\ row.num_products = 0
         /\ \/ row.first_signedup_channel \in Range(row.channel)
            \/ /\ row.first_signedup_channel = NULL
               /\ row.channel = <<>>
               /\ row.num_channels = 0

\* the earliest signup row of a customer names no product, a later row does,
\* and another customer has no product at all
C28_Witness ==
  /\ pc = "get_customer_summary"
  /\ \E k \in 1..Len(customer_summary) :
       /\ customers_df[IdxMin(customers_df, customer_summary[k].customerid)].product_name
            = NULL
       /\ customer_summary[k].first_signedup_product # NULL
  /\ \E k \in 1..Len(customer_summary) :
       customer_summary[k].first_signedup_product = NULL

(***************************************************************************)
(* Claims on the cohorts of the consolidated churn *)
(***************************************************************************)

UsageCustomers == Range(Column(usage_df, "customerid"))

FirstUsageWeek(c) ==
  WeekStart(Min({usage_df[i].event_date :
                   i \in {j \in 1..Len(usage_df) : usage_df[j].customerid = c}}))

\* C29: the weekly cohorts of the consolidated churn partition the customers:
\* each customer is in the cohort of the week of its first event, the
\* cohort sizes sum to the overall total_users and the weekly churned_users
\* to the overall churned_users; when the usage is not empty and the
\* threshold is at least 1, churned_users < total_users
C29_CohortsPartitionCustomers ==
  ConsolidatedChurnDone =>
    /\ \A i, j \in 1..Len(weekly_metrics) :
         weekly_metrics[i].cohort_week = weekly_metrics[j].cohort_week => i = j
    /\ \A k \in 1..Len(weekly_metrics) :
         weekly_metrics[k].cohort_size
           = Cardinality({c \in UsageCustomers :
                            FirstUsageWeek(c) = weekly_metrics[k].cohort_week})
    /\ overall_metrics.total_users = Cardinality(UsageCustomers)
    /\ SumSeq(Column(weekly_metrics, "cohort_size")) = overall_metrics.total_users
    /\ SumSeq(Column(weekly_metrics, "churned_users")) = overall_metrics.churned_users
    /\ (usage_df # <<>> /\ args.churn_threshold_days >= 1) =>
         overall_metrics.churned_users < overall_metrics.total_users

\* two cohorts, one of them with a churned customer
C29_Witness ==
  /\ ConsolidatedChurnDone
  /\ Len(weekly_metrics) = 2
  /\ overall_metrics.total_users = 2
  /\ overall_metrics.churned_users = 1

(***************************************************************************)
(* Claims on the journeys and their counts *)
(***************************************************************************)

AvgTimes == transition_data.avg_transition_times

AvgTimesRows(p, q) ==
  {k \in 1..Len(AvgTimes) : AvgTimes[k].from_product = p /\ AvgTimes[k].to_product = q}

\* C30: each customer's journey lists each product the customer adopted
\* exactly once; a customer with k products contributes k - 1 transitions;
\* for every ordered pair of products the count in avg_transition_times is
\* the transition matrix cell; the journey pattern counts sum to the number
\* of customers with an event of a non-null product, which is
\* total_customers
C30_JourneysAndCountsAgree ==
  TransitionsDone =>
    /\ Len(transition_locals.customer_journeys) = Cardinality(TransitionCustomers)
    /\ \A c \in TransitionCustomers :
         /\ Range(JourneyOf(c)) = ProductsOf(c)
         /\ Len(JourneyOf(c)) = Cardinality(ProductsOf(c))
    /\ Len(transition_locals.transition_times) = AdjacentPairs
    /\ \A key \in DOMAIN MatrixCells :
         IF MatrixCells[key] = 0 THEN AvgTimesRows(key[1], key[2]) = {}
         ELSE /\ Cardinality(AvgTimesRows(key[1], key[2])) = 1
              /\ \A k \in AvgTimesRows(key[1], key[2]) :
                   AvgTimes[k].count = MatrixCells[key]
    /\ \A k \in 1..Len(AvgTimes) :
         <<AvgTimes[k].from_product, AvgTimes[k].to_product>> \in DOMAIN MatrixCells
    /\ SumOver(DOMAIN transition_data.journey_patterns, transition_data.journey_patterns)
         = Cardinality(TransitionCustomers)
    /\ transition_data.total_customers = Cardinality(TransitionCustomers)

\* two customers with the same journey of two products
C30_Witness ==
  /\ TransitionsDone
  /\ transition_data.total_customers = 2
  /\ \E journey \in DOMAIN transition_data.journey_patterns :
       /\ Len(journey) = 2
       /\ transition_data.journey_patterns[journey] = 2
  /\ \E k \in 1..Len(AvgTimes) : AvgTimes[k].count = 2

====
